---- MODULE Spec2Model ----
(***************************************************************************)
(* A model of cliapp's settings store (cliapp/settings.py) and of the way  *)
(* Application._run (cliapp/app.py) drives it: declare settings, parse the *)
(* command line for config files only, load the config files, parse the    *)
(* command line again.                                                      *)
(*                                                                         *)
(* Strings are sequences of one-character strings, so that the code's       *)
(* character-level operations (lower(), endswith(), the comma split of a   *)
(* string list, '--no-' + name) are computed and not assumed.  Python       *)
(* values are tagged records [t |-> type, v |-> payload].                   *)
(***************************************************************************)
EXTENDS Integers, Sequences, FiniteSets, TLC

(***************************************************************************)
(* Python values                                                           *)
(***************************************************************************)
PStr(s)  == [t |-> "str",  v |-> s]
PInt(n)  == [t |-> "int",  v |-> n]
PBool(b) == [t |-> "bool", v |-> b]
PList(l) == [t |-> "list", v |-> l]
PTuple(l) == [t |-> "tuple", v |-> l]
PNone    == [t |-> "None", v |-> 0]
Raise(e) == [t |-> "raise", v |-> e]

IsRaise(p) == p.t = "raise"

\* Python's truth value of an object
Truthy(p) ==
    CASE p.t = "bool"  -> p.v
      [] p.t = "int"   -> p.v # 0
      [] p.t = "long"  -> TRUE
      [] p.t = "str"   -> Len(p.v) > 0
      [] p.t = "list"  -> Len(p.v) > 0
      [] p.t = "tuple" -> Len(p.v) > 0
      [] OTHER         -> FALSE

(***************************************************************************)
(* Strings                                                                 *)
(***************************************************************************)
UpperChars == <<"A","B","C","D","E","F","G","H","I","J","K","L","M",
                "N","O","P","Q","R","S","T","U","V","W","X","Y","Z">>
LowerChars == <<"a","b","c","d","e","f","g","h","i","j","k","l","m",
                "n","o","p","q","r","s","t","u","v","w","x","y","z">>
DigitChars == <<"0","1","2","3","4","5","6","7","8","9">>

IndexOf(seq, c) == CHOOSE i \in 1..Len(seq) : seq[i] = c
Occurs(seq, c)  == \E i \in 1..Len(seq) : seq[i] = c

LowerChar(c) == IF Occurs(UpperChars, c) THEN LowerChars[IndexOf(UpperChars, c)] ELSE c
\* str.lower()
lower(s) == [i \in 1..Len(s) |-> LowerChar(s[i])]

IsDigit(c) == Occurs(DigitChars, c)
DigitVal(c) == IndexOf(DigitChars, c) - 1
IsSpace(c) == c \in {" ", "\t", "\n"}

\* str.endswith(suffix)
endswith(s, suffix) ==
    /\ Len(s) >= Len(suffix)
    /\ SubSeq(s, Len(s) - Len(suffix) + 1, Len(s)) = suffix

\* str.strip()
RECURSIVE lstrip(_)
lstrip(s) == IF s # <<>> /\ IsSpace(Head(s)) THEN lstrip(Tail(s)) ELSE s
RECURSIVE rstrip(_)
rstrip(s) == IF s # <<>> /\ IsSpace(s[Len(s)]) THEN rstrip(SubSeq(s, 1, Len(s) - 1)) ELSE s
strip(s) == rstrip(lstrip(s))

AllDigits(s) == s # <<>> /\ \A i \in 1..Len(s) : IsDigit(s[i])

RECURSIVE DigitsToNat(_)
DigitsToNat(s) ==
    IF s = <<>> THEN 0
    ELSE 10 * DigitsToNat(SubSeq(s, 1, Len(s) - 1)) + DigitVal(s[Len(s)])

RECURSIVE NatToDigits(_)
NatToDigits(n) ==
    IF n < 10 THEN <<DigitChars[n + 1]>>
    ELSE NatToDigits(n \div 10) \o <<DigitChars[(n % 10) + 1]>>

(***************************************************************************)
(* Integers and floats of any size.  A natural number is the sequence of   *)
(* its digits in base 2^15, the least significant first, the last one not  *)
(* zero; the empty sequence is zero.                                       *)
(***************************************************************************)
LimbBits == 15
Base == 32768

Hd(a) == IF a = <<>> THEN 0 ELSE a[1]
Tl(a) == IF a = <<>> THEN <<>> ELSE Tail(a)

RECURSIVE Trim(_)
Trim(a) == IF a # <<>> /\ a[Len(a)] = 0 THEN Trim(SubSeq(a, 1, Len(a) - 1)) ELSE a

RECURSIVE Limbs(_)
Limbs(n) == IF n = 0 THEN <<>> ELSE <<n % Base>> \o Limbs(n \div Base)

\* the number of a sequence of at most two digits
ToInt(a) == Hd(a) + Base * Hd(Tl(a))

RECURSIVE AddC(_, _, _)
AddC(a, b, carry) ==
    IF a = <<>> /\ b = <<>> THEN (IF carry = 0 THEN <<>> ELSE <<carry>>)
    ELSE <<(Hd(a) + Hd(b) + carry) % Base>>
         \o AddC(Tl(a), Tl(b), (Hd(a) + Hd(b) + carry) \div Base)
Add(a, b) == AddC(a, b, 0)

\* a - b, for a >= b
RECURSIVE SubB(_, _, _)
SubB(a, b, borrow) ==
    IF a = <<>> THEN <<>>
    ELSE <<(Hd(a) - Hd(b) - borrow + Base) % Base>>
         \o SubB(Tl(a), Tl(b), IF Hd(a) - Hd(b) - borrow < 0 THEN 1 ELSE 0)
Sub(a, b) == Trim(SubB(a, b, 0))

RECURSIVE LessAt(_, _, _)
LessAt(a, b, i) ==
    IF i = 0 THEN FALSE
    ELSE IF a[i] # b[i] THEN a[i] < b[i]
    ELSE LessAt(a, b, i - 1)
Less(a, b) == IF Len(a) # Len(b) THEN Len(a) < Len(b) ELSE LessAt(a, b, Len(a))

\* a * k + carry, for k and carry below the base
RECURSIVE MulC(_, _, _)
MulC(a, k, carry) ==
    IF a = <<>> THEN (IF carry = 0 THEN <<>> ELSE <<carry>>)
    ELSE <<(a[1] * k + carry) % Base>> \o MulC(Tail(a), k, (a[1] * k + carry) \div Base)
Times(a, k) == IF k = 0 THEN <<>> ELSE MulC(a, k, 0)

\* a * Base^n
ShlLimbs(a, n) == IF a = <<>> THEN <<>> ELSE [i \in 1..n |-> 0] \o a

RECURSIVE Mul(_, _)
Mul(a, b) ==
    IF a = <<>> THEN <<>>
    ELSE Add(Times(b, a[1]), ShlLimbs(Mul(Tail(a), b), 1))

RECURSIVE Power(_, _)
Power(k, e) == IF e = 0 THEN <<1>> ELSE Times(Power(k, e - 1), k)

RECURSIVE Pow2(_)
Pow2(e) == IF e = 0 THEN 1 ELSE 2 * Pow2(e - 1)

\* a * 2^k
Shl(a, k) == Times(ShlLimbs(a, k \div LimbBits), Pow2(k % LimbBits))

\* the number of binary digits of a
RECURSIVE BitsOf(_)
BitsOf(n) == IF n = 0 THEN 0 ELSE 1 + BitsOf(n \div 2)
BitLen(a) == IF a = <<>> THEN 0 ELSE LimbBits * (Len(a) - 1) + BitsOf(a[Len(a)])

\* Long division of a by b, for b > 0 with the first binary digit of its
\* last digit set.  The digit of the quotient is found from the first two
\* digits of the remainder r and the first digit of b: the estimate is
\* the digit, or one or two more (Knuth, Algorithm D).
Digit(a, i) == IF i >= 1 /\ i <= Len(a) THEN a[i] ELSE 0
Min(x, y) == IF x < y THEN x ELSE y
Estimate(r, b) ==
    Min(Base - 1,
        (Digit(r, Len(b) + 1) * Base + Digit(r, Len(b))) \div b[Len(b)])
Corrected(r, b, d) ==
    IF ~Less(r, Times(b, d)) THEN d
    ELSE IF ~Less(r, Times(b, d - 1)) THEN d - 1
    ELSE d - 2
DivDigit(q, r, b, d) == << Trim(<<d>> \o q), Sub(r, Times(b, d)) >>
DivStep(q, r, b) == DivDigit(q, r, b, Corrected(r, b, Estimate(r, b)))
DivNext(prev, digit, b) == DivStep(prev[1], Trim(<<digit>> \o prev[2]), b)
RECURSIVE DivFrom(_, _, _)
DivFrom(a, b, i) ==
    IF i > Len(a) - Len(b) + 1 THEN << <<>>, SubSeq(a, Len(a) - Len(b) + 2, Len(a)) >>
    ELSE DivNext(DivFrom(a, b, i + 1), a[i], b)

\* a \div b and a % b, for b > 0
Norm(b) == LimbBits - BitsOf(b[Len(b)])
Div(a, b) ==
    IF Less(a, b) THEN <<>> ELSE DivFrom(Shl(a, Norm(b)), Shl(b, Norm(b)), 1)[1]
Mod(a, b) == Sub(a, Mul(Div(a, b), b))

\* the number a run of decimal digits denotes, four digits at a time
RECURSIVE FromDigits(_)
FromDigits(s) ==
    IF Len(s) <= 4 THEN Limbs(DigitsToNat(s))
    ELSE MulC(FromDigits(SubSeq(s, 1, Len(s) - 4)), 10000,
              DigitsToNat(SubSeq(s, Len(s) - 3, Len(s))))

\* the decimal digits of a number, four digits at a time
FourDigits(n) ==
    <<DigitChars[(n \div 1000) + 1], DigitChars[((n \div 100) % 10) + 1],
      DigitChars[((n \div 10) % 10) + 1], DigitChars[(n % 10) + 1]>>
RECURSIVE ToDigits(_)
ToDigitsNext(q, r) ==
    IF q = <<>> THEN NatToDigits(ToInt(r))
    ELSE ToDigits(q) \o FourDigits(ToInt(r))
ToDigits(a) == ToDigitsNext(Div(a, <<10000>>), Mod(a, <<10000>>))

\* A Python integer: an int where it fits in a machine word, else a long,
\* which the model holds as its decimal digits.
PLong(digits) == [t |-> "long", v |-> digits]
PyInt(a) == IF Len(a) <= 2 THEN PInt(ToInt(a)) ELSE PLong(ToDigits(a))
PyNeg(p) == IF p.t = "int" THEN PInt(0 - p.v) ELSE PLong(<<"-">> \o p.v)
IntOfDigits(s) == IF Len(s) <= 9 THEN PInt(DigitsToNat(s)) ELSE PyInt(FromDigits(s))

\* A float is the fraction num / den of two naturals, den a power of two.
\* RoundDouble(p, q) is the double nearest to p / q: 53 binary digits,
\* ties to the even one.  (Neither the exponent's range nor the
\* subnormal numbers are modelled: the sizes are far from both.)
MantissaBits == 53
Float(num, den) == [num |-> num, den |-> den]

\* p / q rounded to the nearest integer: the quotient d, or one more
RoundUp(d, r, q) ==
    IF Less(q, Shl(r, 1)) THEN Add(d, <<1>>)
    ELSE IF Shl(r, 1) = q /\ Hd(d) % 2 = 1 THEN Add(d, <<1>>)
    ELSE d
Remains(p, q, d) == RoundUp(d, Sub(p, Mul(d, q)), q)
RoundInt(p, q) == Remains(p, q, Div(p, q))

\* p / (q * 2^e) rounded to the nearest integer, times 2^e
Rounded(p, q, e) ==
    IF e >= 0 THEN Float(Shl(RoundInt(p, Shl(q, e)), e), <<1>>)
    ELSE Float(RoundInt(Shl(p, 0 - e), q), Shl(<<1>>, 0 - e))

\* the exponent e for which 2^52 <= p / (q * 2^e) < 2^53: the one given,
\* which is right or one too small
Exponent(p, q, e) ==
    IF e >= 0 THEN (IF Less(p, Shl(q, e + MantissaBits)) THEN e ELSE e + 1)
    ELSE IF Less(Shl(p, 0 - e), Shl(q, MantissaBits)) THEN e ELSE e + 1

RoundDouble(p, q) ==
    IF p = <<>> THEN Float(<<>>, <<1>>)
    ELSE Rounded(p, q, Exponent(p, q, BitLen(p) - BitLen(q) - MantissaBits))

\* int(x) of a float: truncation
Truncate(x) == Div(x.num, x.den)

\* int(x) for the values the store passes to it: an int is itself, a string
\* must be an optionally signed run of decimal digits, surrounding
\* whitespace allowed; anything else raises ValueError.
IntOfStripped(s) ==
    IF AllDigits(s) THEN IntOfDigits(s)
    ELSE IF s # <<>> /\ Head(s) = "-" /\ AllDigits(Tail(s))
         THEN PyNeg(IntOfDigits(Tail(s)))
    ELSE IF s # <<>> /\ Head(s) = "+" /\ AllDigits(Tail(s))
         THEN IntOfDigits(Tail(s))
    ELSE Raise("ValueError")
int(p) ==
    CASE p.t = "int"  -> p
      [] p.t = "long" -> p
      [] p.t = "bool" -> PInt(IF p.v THEN 1 ELSE 0)
      [] p.t = "str"  -> IntOfStripped(strip(p.v))
      [] OTHER -> Raise("TypeError")

\* str(x) for strings, integers and booleans
str(p) ==
    CASE p.t = "str"  -> p.v
      [] p.t = "int"  -> IF p.v < 0 THEN <<"-">> \o NatToDigits(0 - p.v)
                         ELSE NatToDigits(p.v)
      [] p.t = "long" -> p.v
      [] p.t = "bool" -> IF p.v THEN <<"T","r","u","e">> ELSE <<"F","a","l","s","e">>
      [] p.t = "None" -> <<"N","o","n","e">>
      [] OTHER        -> <<"<","?",">">>

(***************************************************************************)
(* String literals of the program and of the modelled application          *)
(***************************************************************************)
s_empty   == <<>>
s_yes     == <<"y","e","s">>
s_no      == <<"n","o">>
s_on      == <<"o","n">>
s_1       == <<"1">>
s_true    == <<"t","r","u","e">>
s_config  == <<"c","o","n","f","i","g">>
s_dotyaml == <<".","y","a","m","l">>
s_dotconf == <<".","c","o","n","f">>

(***************************************************************************)
(* Setting and its subclasses.  A setting object is a record               *)
(*   names: the alias names, names[1] the canonical one                    *)
(*   cls: the class                                                        *)
(*   choices: ChoiceSetting.choices (<<>> for the other classes)           *)
(*   string_value: Setting._string_value, a Python value                   *)
(*   strings: StringListSetting._strings, a sequence of strings            *)
(*   using_default_value: StringListSetting.using_default_value            *)
(*   default: StringListSetting.default                                    *)
(***************************************************************************)
Classes == {"String", "StringList", "Choice", "Boolean", "ByteSize", "Integer"}

\* BooleanSetting._trues, BooleanSetting._false
trues == <<s_yes, s_on, s_1, s_true>>
false == s_no

\* ByteSizeSetting.parse_human_size: the units table
UnitNames == << <<"k">>, <<"m">>, <<"g">>, <<"t">>,
                <<"k","i">>, <<"m","i">>, <<"g","i">>, <<"t","i">> >>
UnitBase(i) == IF i <= 4 THEN 1000 ELSE 1024
UnitExp(i)  == IF i <= 4 THEN i ELSE i - 4
\* units.get(unit, 1)
UnitOf(i) == IF i = 0 THEN <<1>> ELSE Power(UnitBase(i), UnitExp(i))

\* the longest prefix of s made of digits
RECURSIVE DigitPrefixLen(_)
DigitPrefixLen(s) ==
    IF s # <<>> /\ IsDigit(Head(s)) THEN 1 + DigitPrefixLen(Tail(s)) ELSE 0

\* The regular expression of parse_human_size, matched from the start of
\* the lowered string s: \d+ (\.\d+)? \s* (unit)? b? \s* $.  n is the length
\* of the digits, f of the fraction's digits (0 for no fraction), rest what
\* follows the number with its surrounding whitespace stripped: the match
\* succeeds when rest is a unit, a b, a unit and a b, or nothing.
DropB(rest) ==
    IF rest # <<>> /\ rest[Len(rest)] = "b" THEN SubSeq(rest, 1, Len(rest) - 1) ELSE rest

SizeMatch3(s, n, f, unit) ==
    IF n > 0 /\ (unit = <<>> \/ Occurs(UnitNames, unit))
    THEN [matched |-> TRUE,
          number  |-> SubSeq(s, 1, n),
          frac    |-> IF f > 0 THEN SubSeq(s, n + 2, n + 1 + f) ELSE <<>>,
          unit    |-> IF unit # <<>> THEN IndexOf(UnitNames, unit) ELSE 0]
    ELSE [matched |-> FALSE, number |-> <<>>, frac |-> <<>>, unit |-> 0]

SizeMatch2(s, n, f) ==
    SizeMatch3(s, n, f,
               DropB(strip(SubSeq(s, (IF f > 0 THEN n + f + 2 ELSE n + 1), Len(s)))))

SizeMatch1(s, n) ==
    SizeMatch2(s, n,
               IF Len(s) >= n + 2 /\ s[n + 1] = "."
               THEN DigitPrefixLen(SubSeq(s, n + 2, Len(s))) ELSE 0)

SizeMatch(size) == SizeMatch1(lower(size), DigitPrefixLen(lower(size)))

\* float(m.group('number'))
float(m) ==
    RoundDouble(FromDigits(m.number \o m.frac), Power(10, Len(m.frac)))

\* number * units.get(unit, 1): the product of two floats, rounded
Product(number, unit) == RoundDouble(Mul(number.num, unit), number.den)

\* int(number * units.get(unit, 1))
Scaled(number, unit) ==
    IF number.num = <<>> THEN PInt(0) ELSE PyInt(Truncate(Product(number, unit)))

SizeOf(m) == IF ~m.matched THEN PInt(0) ELSE Scaled(float(m), UnitOf(m.unit))

parse_human_size(size) == SizeOf(SizeMatch(size))

\* Setting.get_value and the overriding get_value of the subclasses
get_value(s) ==
    CASE s.cls = "StringList" -> PList(s.strings)
      [] s.cls = "Boolean"    -> PBool(Occurs(trues, lower(s.string_value.v)))
      [] s.cls \in {"ByteSize", "Integer"} -> int(s.string_value)
      [] OTHER                -> s.string_value

\* a faulty is_true, to measure C12_BooleanReadsBack against: the string
\* is compared as it is written
is_true_as_written(value) ==
    CASE value.t = "bool" -> value.v
      [] value.t = "str"  -> Occurs(trues, value.v)
      [] OTHER            -> Truthy(value)

\* BooleanSetting.set_value.is_true
is_true(value) ==
    CASE value.t = "bool" -> value.v
      [] value.t = "str"  -> Occurs(trues, lower(value.v))
      [] OTHER            -> Truthy(value)

\* Setting.set_value and the overriding set_value of the subclasses
set_value(s, value) ==
    CASE s.cls = "StringList" ->
           [s EXCEPT !.strings = IF value.t # "list" THEN <<value.v>> ELSE value.v,
                     !.using_default_value = FALSE]
      [] s.cls = "Boolean" ->
           [s EXCEPT !.string_value = PStr(IF is_true(value) THEN trues[1] ELSE false)]
      [] s.cls = "ByteSize" ->
           [s EXCEPT !.string_value =
                PStr(str(IF value.t = "str" THEN parse_human_size(value.v) ELSE value))]
      [] s.cls = "Integer" ->
           [s EXCEPT !.string_value = PStr(str(value))]
      [] OTHER ->
           [s EXCEPT !.string_value = value]

\* StringListSetting.parse_value: the comma split, with double quotes
\* protecting commas.  st = <<values, value, inside_quote>>
RECURSIVE SplitLoop(_, _, _, _)
SplitLoop(string, values, value, inside_quote) ==
    IF string = <<>> THEN <<values, value>>
    ELSE LET c == Head(string) IN
         IF c = "\"" THEN SplitLoop(Tail(string), values, value, ~inside_quote)
         ELSE IF c = "," /\ ~inside_quote
              THEN SplitLoop(Tail(string), Append(values, value), <<>>, inside_quote)
         ELSE SplitLoop(Tail(string), values, Append(value, c), inside_quote)

StripAll(values) == [i \in 1..Len(values) |-> strip(values[i])]
LastValue(r) == IF r[2] # <<>> THEN Append(r[1], r[2]) ELSE r[1]
split_values(string) == StripAll(LastValue(SplitLoop(string, <<>>, <<>>, FALSE)))

\* a faulty parse_value, to measure C3_LastFileWins against: the list of
\* a string list grows by the values of the string
parse_value_appending(s, string) ==
    IF s.cls = "StringList" THEN set_value(s, PList(s.strings \o split_values(string)))
    ELSE set_value(s, PStr(string))

\* Setting.parse_value, StringListSetting.parse_value
parse_value(s, string) ==
    IF s.cls = "StringList" THEN set_value(s, PList(split_values(string)))
    ELSE set_value(s, PStr(string))

\* a faulty has_value, to measure C16_HasValue against: a setting holding
\* the empty string has no value
has_value_nonempty(s) ==
    IF s.cls = "StringList" THEN s.strings # <<>>
    ELSE get_value(s).t # "None" /\ get_value(s) # PStr(<<>>)

\* Setting.has_value, StringListSetting.has_value
has_value(s) ==
    IF s.cls = "StringList" THEN s.strings # <<>>
    ELSE get_value(s).t # "None"

\* ', '.join(values)
RECURSIVE join(_, _)
join(sep, values) ==
    IF values = <<>> THEN <<>>
    ELSE IF Len(values) = 1 THEN values[1]
    ELSE values[1] \o sep \o join(sep, Tail(values))

\* '"%s"' % v if ',' in v else v
quoted(v) == IF Occurs(v, ",") THEN <<"\"">> \o v \o <<"\"">> ELSE v

\* Setting.format, StringListSetting.format: a string, or the exception
\* reading the value raises
format(s) ==
    IF s.cls = "StringList"
    THEN PStr(join(<<",", " ">>, [i \in 1..Len(s.strings) |-> quoted(s.strings[i])]))
    ELSE IF IsRaise(get_value(s)) THEN get_value(s)
    ELSE PStr(str(get_value(s)))

\* Setting.__init__ and the constructors of the subclasses
Blank(cls, names) ==
    [names |-> names, cls |-> cls, choices |-> <<>>,
     string_value |-> PNone, strings |-> <<>>,
     using_default_value |-> FALSE, default |-> <<>>]

NewSetting(cls, names, default, choices) ==
    IF cls = "StringList"
    THEN [Blank(cls, names) EXCEPT !.default = default.v, !.strings = default.v,
                                   !.using_default_value = TRUE]
    ELSE [set_value(Blank(cls, names), IF cls = "Choice" THEN PStr(choices[1]) ELSE default)
             EXCEPT !.choices = choices]

(***************************************************************************)
(* The Settings store.  Operators take and return the store as a record    *)
(*   settingses: Settings._settingses, alias name -> index of the object   *)
(*               in objs (two aliases of one setting share the object)     *)
(*   objs: the setting objects, in the order of their creation             *)
(*   canonical_names: Settings._canonical_names                            *)
(*   config_files: Settings._config_files, PNone or a PList of paths       *)
(*   required_config_files: Settings._required_config_files                *)
(***************************************************************************)
s_dashdash == <<"-","-">>
s_dash     == <<"-">>
s_no_      == <<"n","o","-">>

\* the setting object an alias resolves to: self._settingses[name]
Obj(st, name) == st.objs[st.settingses[name]]

\* Settings._add_setting
add_setting(st, setting) ==
    LET k == Len(st.objs) + 1 IN
    [st EXCEPT
       !.objs = Append(st.objs, setting),
       !.canonical_names = Append(st.canonical_names, setting.names[1]),
       !.settingses =
           [n \in DOMAIN st.settingses \cup {setting.names[i] : i \in 1..Len(setting.names)}
              |-> IF \E i \in 1..Len(setting.names) : setting.names[i] = n
                  THEN k ELSE st.settingses[n]]]

\* Settings.__getitem__: a KeyError for a name that is no alias
getitem(st, name) ==
    IF name \in DOMAIN st.settingses THEN get_value(Obj(st, name)) ELSE Raise("KeyError")

\* self._settingses[name]: the exception it raises, or none
lookup(st, name) == IF name \in DOMAIN st.settingses THEN "" ELSE "KeyError"

\* a faulty __setitem__, to measure C19_UnknownName against: a name that
\* is no alias becomes a new setting, as a key of a dict would
setitem_adding(st, name, value) ==
    IF lookup(st, name) # ""
    THEN add_setting(st, [Blank("String", <<name>>) EXCEPT !.string_value = value])
    ELSE [st EXCEPT !.objs[st.settingses[name]] = set_value(Obj(st, name), value)]

\* Settings.__setitem__: the store after settings[name] = value, the
\* store as it was where the lookup of the name raises
setitem(st, name, value) ==
    IF lookup(st, name) # "" THEN st
    ELSE [st EXCEPT !.objs[st.settingses[name]] = set_value(Obj(st, name), value)]

\* Settings.keys
keys(st) == st.canonical_names

\* Settings.require
require(st, setting_names) ==
    IF \E i \in 1..Len(setting_names) : ~has_value(Obj(st, setting_names[i]))
    THEN Raise("AppException")
    ELSE PNone

\* Settings.as_cp: the config section, an item for every canonical name;
\* the other sections are those of _all_config_data
\* cp.set(section, option, value) for every item of a section: the parser
\* keeps the option under optionxform(option), its name in lower case
set_all(items) ==
    [k \in {lower(o) : o \in DOMAIN items} |->
        items[CHOOSE o \in DOMAIN items : lower(o) = k]]

as_cp(st) ==
    [config |-> [i \in 1..Len(st.canonical_names) |->
                    <<st.canonical_names[i], format(Obj(st, st.canonical_names[i]))>>],
     sections |-> [section \in DOMAIN st.all_config_data \ {s_config} |->
                      set_all(st.all_config_data[section])]]

\* ConfigParser.write of the config section: '[config]', then a line
\* 'name = value' for every item
s_config_header == <<"[","c","o","n","f","i","g","]">>
write(cp) ==
    <<s_config_header>> \o
    [i \in 1..Len(cp.config) |-> cp.config[i][1] \o <<" ","=", " ">> \o str(cp.config[i][2])]

\* Settings._option_names
option_name(name) == IF Len(name) > 1 THEN s_dashdash \o name ELSE s_dash \o name
option_names(names) == [i \in 1..Len(names) |-> option_name(names[i])]

SeqToSet(seq) == {seq[i] : i \in 1..Len(seq)}

\* [x for x in seq if x in keep], in order
RECURSIVE Filter(_, _)
Filter(seq, keep) ==
    IF seq = <<>> THEN <<>>
    ELSE IF Head(seq) \in keep THEN <<Head(seq)>> \o Filter(Tail(seq), keep)
    ELSE Filter(Tail(seq), keep)

(***************************************************************************)
(* Settings.build_parser.  The parser is the sequence of its options in    *)
(* the order they are added; an option is a record                         *)
(*   strings: its option strings         callback: the callback's name     *)
(*   deferred: wrapped by defer_last     maybe: wrapped by maybe           *)
(*   type: "string", "int", "choice" or "none" (the option takes no value) *)
(*   choices, setting: the callback_args (index into objs, 0 for none)     *)
(***************************************************************************)
Opt(strings, callback, deferred, maybe_, type, choices, setting) ==
    [strings |-> strings, callback |-> callback, deferred |-> deferred,
     maybe |-> maybe_, type |-> type, choices |-> choices, setting |-> setting]

o_help      == <<"-","-","h","e","l","p">>
o_h         == <<"-","h">>
o_version   == <<"-","-","v","e","r","s","i","o","n">>
o_dump_setting_names ==
    <<"-","-","d","u","m","p","-","s","e","t","t","i","n","g","-","n","a","m","e","s">>
o_dump_config == <<"-","-","d","u","m","p","-","c","o","n","f","i","g">>
o_no_default_configs ==
    <<"-","-","n","o","-","d","e","f","a","u","l","t","-","c","o","n","f","i","g","s">>
o_config    == <<"-","-","c","o","n","f","i","g">>
o_list_config_files ==
    <<"-","-","l","i","s","t","-","c","o","n","f","i","g","-","f","i","l","e","s">>
o_generate_manpage ==
    <<"-","-","g","e","n","e","r","a","t","e","-","m","a","n","p","a","g","e">>
o_help_all  == <<"-","-","h","e","l","p","-","a","l","l">>

\* the options optparse.OptionParser(version=...) starts with, then the
\* built-in options of build_parser, in the order the code adds them
BuiltinOptions ==
    << Opt(<<o_h, o_help>>, "help", FALSE, FALSE, "none", <<>>, 0),
       Opt(<<o_version>>, "version", FALSE, FALSE, "none", <<>>, 0),
       Opt(<<o_dump_setting_names>>, "dump_setting_names", TRUE, TRUE, "none", <<>>, 0),
       Opt(<<o_dump_config>>, "call_dump_config", TRUE, TRUE, "none", <<>>, 0),
       Opt(<<o_no_default_configs>>, "reset_configs", FALSE, FALSE, "none", <<>>, 0),
       Opt(<<o_config>>, "append_to_configs", FALSE, FALSE, "string", <<>>, 0),
       Opt(<<o_list_config_files>>, "list_config_files", TRUE, TRUE, "none", <<>>, 0),
       Opt(<<o_generate_manpage>>, "_generate_manpage", FALSE, TRUE, "string", <<>>, 0),
       Opt(<<o_help_all>>, "help_all", TRUE, TRUE, "none", <<>>, 0) >>

\* the option strings a parser already has
Taken(opts) == UNION {SeqToSet(opts[i].strings) : i \in 1..Len(opts)}

\* optparse's add_option: a parser (or an error) with one more option.
\* Without an option string optparse reads args[0] of an empty tuple (an
\* IndexError), and an option
\* string the parser already has is an OptionConflictError.
AddOption(p, o) ==
    IF p.error # "" THEN p
    ELSE IF o.strings = <<>> THEN [p EXCEPT !.error = "IndexError"]
    ELSE IF SeqToSet(o.strings) \cap Taken(p.options) # {}
         THEN [p EXCEPT !.error = "OptionConflictError"]
    ELSE [p EXCEPT !.options = Append(p.options, o)]

\* Setting.type of each class
TypeOf(s) ==
    CASE s.cls = "Choice"  -> "choice"
      [] s.cls = "Integer" -> "int"
      [] s.cls = "Boolean" -> "none"
      [] OTHER             -> "string"

\* build_parser.add_option
add_option(p, st, k) ==
    AddOption(p, Opt(option_names(st.objs[k].names), "set_value", FALSE, TRUE,
                     TypeOf(st.objs[k]), st.objs[k].choices, k))

\* build_parser.add_negation_option
long_names(names) == Filter(names, {x \in SeqToSet(names) : SubSeq(x, 1, 2) = s_dashdash})
neg_names(long) ==
    [i \in 1..Len(long) |-> s_dashdash \o s_no_ \o SubSeq(long[i], 3, Len(long[i]))]
unused_names(st, neg) ==
    Filter(neg, {x \in SeqToSet(neg) : SubSeq(x, 3, Len(x)) \notin DOMAIN st.settingses})

add_negation_option(p, st, k) ==
    AddOption(p, Opt(unused_names(st, neg_names(long_names(option_names(st.objs[k].names)))),
                     "set_false", FALSE, TRUE, "none", <<>>, k))

\* build_parser: the loop over the canonical names.  Reading s.value for
\* set_defaults raises when the stored string does not decode.
\* p.set_defaults(**{self._destname(name): s.value})
set_defaults(p, value) ==
    IF p.error = "" /\ IsRaise(value) THEN [p EXCEPT !.error = value.v] ELSE p

add_negation_if_boolean(p, st, k) ==
    IF st.objs[k].cls = "Boolean" THEN add_negation_option(p, st, k) ELSE p

add_options_of(p, st, k) ==
    set_defaults(add_negation_if_boolean(add_option(p, st, k), st, k),
                 get_value(st.objs[k]))

RECURSIVE AddSettingOptions(_, _, _)
AddSettingOptions(p, st, names) ==
    IF names = <<>> \/ p.error # "" THEN p
    ELSE AddSettingOptions(add_options_of(p, st, st.settingses[Head(names)]),
                           st, Tail(names))

build_parser(st) ==
    AddSettingOptions([error |-> "", options |-> BuiltinOptions], st, st.canonical_names)

(***************************************************************************)
(* The environment: the program name, the home directory, the directories  *)
(* that exist with their entries.                                          *)
(***************************************************************************)
\* the characters of file names in code point order: ord(c)
CharOrder == <<" ", "-", ".", "/">> \o DigitChars \o UpperChars \o <<"_">> \o LowerChars
             \o <<"~">>
\* the weight of a character in a collation that ignores case
collation_weight(c) == IndexOf(CharOrder, LowerChar(c))

ord(c) == IndexOf(CharOrder, c)

\* [ord(c) for c in a] < [ord(c) for c in b]
RECURSIVE KeyLess(_, _)
KeyLess(a, b) ==
    IF b = <<>> THEN FALSE
    ELSE IF a = <<>> THEN TRUE
    ELSE IF ord(Head(a)) # ord(Head(b)) THEN ord(Head(a)) < ord(Head(b))
    ELSE KeyLess(Tail(a), Tail(b))

\* basenames.sort(key=lambda s: [ord(c) for c in s]): a stable insertion
RECURSIVE InsertSorted(_, _)
InsertSorted(sorted, x) ==
    IF sorted = <<>> THEN <<x>>
    ELSE IF KeyLess(x, Head(sorted)) THEN <<x>> \o sorted
    ELSE <<Head(sorted)>> \o InsertSorted(Tail(sorted), x)
RECURSIVE SortNames(_)
SortNames(names) ==
    IF names = <<>> THEN <<>>
    ELSE InsertSorted(SortNames(SubSeq(names, 1, Len(names) - 1)), names[Len(names)])

s_slash == <<"/">>
\* os.path.join(dirname, x) for a relative x
path_join(dirname, x) ==
    IF dirname = <<>> \/ dirname[Len(dirname)] = "/" THEN dirname \o x
    ELSE dirname \o s_slash \o x

\* Settings.listconfs; dirs maps the directories that exist to what
\* listdir returns for them
ConfNames(basenames) ==
    Filter(basenames, {x \in SeqToSet(basenames) :
                          endswith(x, s_dotconf) \/ endswith(x, s_dotyaml)})
JoinAll(dirname, names) == [i \in 1..Len(names) |-> path_join(dirname, names[i])]

listconfs(dirs, dirname) ==
    IF dirname \notin DOMAIN dirs THEN <<>>
    ELSE JoinAll(dirname, ConfNames(SortNames(dirs[dirname])))

s_etc      == <<"/","e","t","c","/">>
s_homedot  == <<"/",".">>
s_dotconfigdir == <<"/",".","c","o","n","f","i","g","/">>

\* [x for x in seq if x not in have], appended one at a time
RECURSIVE AppendNew(_, _)
AppendNew(configs, locations) ==
    IF locations = <<>> THEN configs
    ELSE AppendNew(IF Head(locations) \in SeqToSet(configs) THEN configs
                   ELSE Append(configs, Head(locations)), Tail(locations))

RECURSIVE XdgConfigs(_, _, _)
XdgConfigs(env, configs, xdg_dirs) ==
    IF xdg_dirs = <<>> THEN configs
    ELSE XdgConfigs(env,
                    AppendNew(configs, listconfs(env.dirs, path_join(Head(xdg_dirs), env.progname))),
                    Tail(xdg_dirs))

Reverse(seq) == [i \in 1..Len(seq) |-> seq[Len(seq) + 1 - i]]

\* Settings.default_config_files
hardcoded_config_files(env) ==
    << s_etc \o env.progname \o s_dotconf,
       s_etc \o env.progname \o s_dotyaml >>
    \o listconfs(env.dirs, s_etc \o env.progname)
    \o << env.home \o s_homedot \o env.progname \o s_dotconf,
          env.home \o s_homedot \o env.progname \o s_dotyaml >>
    \o listconfs(env.dirs, env.home \o s_dotconfigdir \o env.progname)

default_config_files(env) ==
    IF env.xdg_is_available
    THEN XdgConfigs(env, hardcoded_config_files(env), Reverse(env.xdg_config_dirs))
    ELSE hardcoded_config_files(env)

\* Settings._get_config_files: the list, computed on first use
get_config_files(st, env) ==
    IF st.config_files.t = "None" THEN default_config_files(env) ELSE st.config_files.v

(***************************************************************************)
(* Settings.parse_args.  The command line is a sequence of option          *)
(* occurrences [opt |-> option string, val |-> PNone or PStr(value)], as   *)
(* optparse splits --name=value and --name value; a state of the parse is  *)
(*   st: the store         deferred: deferred_last, the callbacks' names   *)
(*   exit: PNone, or PInt(code) once sys.exit was called                   *)
(*   raised: "" or the exception that escaped                              *)
(*   out: what was written to sys.stdout, [what |-> the callback that      *)
(*        wrote, lines |-> the lines]                                      *)
(***************************************************************************)
\* optparse's conversion of an int option: radix 8 after a leading 0
IsOctal(s) == s # <<>> /\ \A i \in 1..Len(s) : IsDigit(s[i]) /\ DigitVal(s[i]) < 8
RECURSIVE OctalToNat(_)
OctalToNat(s) ==
    IF s = <<>> THEN 0
    ELSE 8 * OctalToNat(SubSeq(s, 1, Len(s) - 1)) + DigitVal(s[Len(s)])
optparse_int(val) ==
    IF val # <<>> /\ Head(val) = "0"
    THEN IF IsOctal(val) THEN PInt(OctalToNat(val)) ELSE Raise("OptionValueError")
    ELSE IF IsRaise(int(PStr(val))) THEN Raise("OptionValueError") ELSE int(PStr(val))

\* optparse's check_value for the option's type
check_value(o, val) ==
    CASE o.type = "int"    -> optparse_int(val)
      [] o.type = "choice" -> IF Occurs(o.choices, val) THEN PStr(val)
                              ELSE Raise("OptionValueError")
      [] OTHER             -> PStr(val)

\* a faulty set_value callback, to measure C4_StringListFromCli against:
\* the first value of the command line is appended to the default as well
cb_set_value_appending(st, k, value) ==
    LET setting == st.objs[k] IN
    IF setting.cls = "StringList"
    THEN [st EXCEPT !.objs[k] =
             set_value(setting, PList(get_value(setting).v \o <<value.v>>))]
    ELSE IF setting.cls = "Boolean"
    THEN [st EXCEPT !.objs[k] = set_value(setting, PBool(TRUE))]
    ELSE [st EXCEPT !.objs[k] = set_value(setting, value)]

\* build_parser.set_value, the callback of a setting's option
cb_set_value(st, k, value) ==
    LET setting == st.objs[k] IN
    IF setting.cls = "StringList"
    THEN IF setting.using_default_value
         THEN [st EXCEPT !.objs[k] = set_value(setting, PList(<<value.v>>))]
         ELSE [st EXCEPT !.objs[k] =
                  set_value(setting, PList(get_value(setting).v \o <<value.v>>))]
    ELSE IF setting.cls = "Boolean"
    THEN [st EXCEPT !.objs[k] = set_value(setting, PBool(TRUE))]
    ELSE [st EXCEPT !.objs[k] = set_value(setting, value)]

\* build_parser.set_false, the callback of a --no-name option
cb_set_false(st, k) == [st EXCEPT !.objs[k] = set_value(st.objs[k], PBool(FALSE))]

\* a faulty reset_configs, to measure C28_NoDefaultConfigs against: the
\* list of required files is left as it is
reset_configs_only(st) == [st EXCEPT !.config_files = PList(<<>>)]

\* build_parser.reset_configs
reset_configs(st) ==
    [st EXCEPT !.config_files = PList(<<>>), !.required_config_files = <<>>]

\* build_parser.append_to_configs
append_to_configs(st, env, value) ==
    [st EXCEPT !.config_files = PList(Append(get_config_files(st, env), value)),
               !.required_config_files = Append(st.required_config_files, value)]

\* a faulty maybe, to measure C2_ConfigsOnlyFrame against: the callback
\* whatever configs_only is
maybe_always(configs_only, o) == o.callback

\* build_parser.maybe: the callback, or one that does nothing
maybe(configs_only, o) == IF o.maybe /\ configs_only THEN "nothing" ELSE o.callback

\* what a deferred callback writes to sys.stdout, a line per element:
\* dump_config writes as_cp, dump_setting_names the canonical names,
\* list_config_files the config files; the text of --help-all is left out
written(st, env, cb) ==
    CASE cb = "call_dump_config"   -> write(as_cp(st))
      [] cb = "dump_setting_names" -> st.canonical_names
      [] cb = "list_config_files"  -> get_config_files(st, env)
      [] OTHER                     -> <<>>

\* a faulty call, to measure C17_DeferredActions against: the callback of
\* --dump-config and the like writes and ends the process where the option
\* stands on the command line
call_at_once(ps, env, cb, o, value) ==
    IF o.deferred
    THEN IF cb = "nothing" THEN ps
         ELSE [ps EXCEPT !.exit = PInt(0),
                         !.out = [what |-> cb, lines |-> written(ps.st, env, cb)]]
    ELSE CASE cb = "set_value"  -> [ps EXCEPT !.st = cb_set_value(ps.st, o.setting, value)]
           [] cb = "set_false"  -> [ps EXCEPT !.st = cb_set_false(ps.st, o.setting)]
           [] cb = "reset_configs" -> [ps EXCEPT !.st = reset_configs(ps.st)]
           [] cb = "append_to_configs" ->
                [ps EXCEPT !.st = append_to_configs(ps.st, env, value.v)]
           [] cb \in {"help", "version", "_generate_manpage"} -> [ps EXCEPT !.exit = PInt(0)]
           [] OTHER -> ps

\* optparse calls the option's callback with the converted value
call(ps, env, cb, o, value) ==
    IF o.deferred THEN [ps EXCEPT !.deferred = Append(ps.deferred, cb)]
    ELSE CASE cb = "set_value"  -> [ps EXCEPT !.st = cb_set_value(ps.st, o.setting, value)]
           [] cb = "set_false"  -> [ps EXCEPT !.st = cb_set_false(ps.st, o.setting)]
           [] cb = "reset_configs" -> [ps EXCEPT !.st = reset_configs(ps.st)]
           [] cb = "append_to_configs" ->
                [ps EXCEPT !.st = append_to_configs(ps.st, env, value.v)]
           \* optparse's --help and --version, and _generate_manpage (its
           \* template taken to be readable), end the process at once
           [] cb \in {"help", "version", "_generate_manpage"} -> [ps EXCEPT !.exit = PInt(0)]
           [] OTHER -> ps

take_action(ps, env, o, value, configs_only) ==
    call(ps, env, maybe(configs_only, o), o, value)

\* the option of the parser that has the option string
FindOption(opts, opt) ==
    IF \E i \in 1..Len(opts) : opt \in SeqToSet(opts[i].strings)
    THEN CHOOSE i \in 1..Len(opts) : opt \in SeqToSet(opts[i].strings)
    ELSE 0

\* a faulty p.error, to measure C9_SuppressedChoiceError against: status 0
error_exit_0(suppress_errors) == PInt(0)

\* p.error: exit status 2, or 1 with suppress_errors
error_exit(suppress_errors) == PInt(IF suppress_errors THEN 1 ELSE 2)

\* optparse's loop over the command line: it stops at the first error
\* the converted value of an occurrence a of option o: an error when the
\* option is given a value it does not take, or none where it takes one
converted(o, a) ==
    IF (o.type # "none") # (a.val.t = "str") THEN Raise("BadOptionError")
    ELSE IF o.type = "none" THEN PNone
    ELSE check_value(o, a.val.v)

\* one option occurrence: i is the option's index, 0 for an unknown
\* option; value its converted value
process_opt(ps, env, opts, i, value, configs_only, suppress_errors) ==
    IF i = 0 \/ IsRaise(value) THEN [ps EXCEPT !.exit = error_exit(suppress_errors)]
    ELSE take_action(ps, env, opts[i], value, configs_only)

OptionAt(opts, i) == IF i = 0 THEN opts[1] ELSE opts[i]

RECURSIVE ProcessArgs(_, _, _, _, _, _)
ProcessArgs(ps, env, opts, args, configs_only, suppress_errors) ==
    IF args = <<>> \/ ps.exit.t # "None" THEN ps
    ELSE ProcessArgs(
            process_opt(ps, env, opts, FindOption(opts, Head(args).opt),
                        converted(OptionAt(opts, FindOption(opts, Head(args).opt)), Head(args)),
                        configs_only, suppress_errors),
            env, opts, Tail(args), configs_only, suppress_errors)

\* the deferred callbacks, called after the whole command line in the order
\* of their options: the first that maybe() did not replace writes and
\* ends the process with sys.exit(0)
FirstDeferred(deferred) ==
    IF \E i \in 1..Len(deferred) : deferred[i] # "nothing"
    THEN deferred[CHOOSE i \in 1..Len(deferred) :
                    deferred[i] # "nothing" /\ \A j \in 1..(i-1) : deferred[j] = "nothing"]
    ELSE "nothing"

run_deferred(ps, env) ==
    IF ps.exit.t = "None" /\ FirstDeferred(ps.deferred) # "nothing"
    THEN [ps EXCEPT !.exit = PInt(0),
                    !.out = [what |-> FirstDeferred(ps.deferred),
                             lines |-> written(ps.st, env, FirstDeferred(ps.deferred))]]
    ELSE ps

\* Settings.parse_args
NoOut == [what |-> "", lines |-> <<>>]

ParseStart(st) == [st |-> st, deferred |-> <<>>, exit |-> PNone, raised |-> "", out |-> NoOut]

parse_with(p, st, env, args, configs_only, suppress_errors) ==
    IF p.error # "" THEN [ParseStart(st) EXCEPT !.raised = p.error]
    ELSE run_deferred(ProcessArgs(ParseStart(st), env, p.options, args, configs_only,
                                  suppress_errors), env)

parse_args(st, env, args, configs_only, suppress_errors) ==
    parse_with(build_parser(st), st, env, args, configs_only, suppress_errors)

(***************************************************************************)
(* Settings.load_configs.  The file system maps the paths of the files     *)
(* that exist to their parsed content:                                     *)
(*   an ini file:  [config |-> <<name, raw string>> pairs of [config],     *)
(*                  sections |-> <<section, pairs>> of the other sections] *)
(*   a yaml file:  [obj |-> what yaml.safe_load returns], a mapping being  *)
(*                  [t |-> "dict", v |-> <<key, value>> pairs]             *)
(* A state of the load is [st, raised, file, key]: the store, "" or the    *)
(* exception that escaped, and the file and key its message names.         *)
(***************************************************************************)
PDict(items) == [t |-> "dict", v |-> items]

\* dict.get(key) of a PDict: the value of the last pair with the key
DictHas(d, key) == \E i \in 1..Len(d.v) : d.v[i][1] = key
DictGet(d, key) ==
    IF DictHas(d, key)
    THEN d.v[CHOOSE i \in 1..Len(d.v) :
                 d.v[i][1] = key /\ \A j \in (i+1)..Len(d.v) : d.v[j][1] # key][2]
    ELSE PNone

\* a faulty mark_default, to measure C1_Precedence against: the flag is
\* left as set_value left it
mark_default_never(s) == s

\* hasattr(s, 'using_default_value'): s.using_default_value = True
mark_default(s) ==
    IF s.cls = "StringList" THEN [s EXCEPT !.using_default_value = TRUE] ELSE s

\* a faulty set_from_raw_string, to measure C6_UnknownKeyFails against: a
\* name that is no alias is dropped
set_from_raw_string_dropping(ls, pathname, name, raw_string) ==
    IF name \notin DOMAIN ls.st.settingses THEN ls
    ELSE [ls EXCEPT !.st.objs[ls.st.settingses[name]] =
             mark_default(parse_value(ls.st.objs[ls.st.settingses[name]], raw_string))]

\* Settings.set_from_raw_string, and what _read_ini does with its result
set_from_raw_string(ls, pathname, name, raw_string) ==
    IF name \notin DOMAIN ls.st.settingses
    THEN [ls EXCEPT !.raised = "UnknownConfigVariable", !.file = pathname, !.key = name]
    ELSE [ls EXCEPT !.st.objs[ls.st.settingses[name]] =
             mark_default(parse_value(ls.st.objs[ls.st.settingses[name]], raw_string))]

\* section_data[option] = value for every option of a section
\* d[k] = v for a dict d that is a function
Put(d, k, v) == [x \in DOMAIN d \cup {k} |-> IF x = k THEN v ELSE d[x]]

RECURSIVE StoreSection(_, _, _)
StoreSection(data, section, items) ==
    IF items = <<>> THEN data
    ELSE StoreSection(Put(data, section, Put(data[section], Head(items)[1], Head(items)[2])),
                      section, Tail(items))

\* if section not in self._all_config_data: self._all_config_data[section] = {}
WithSection(data, section) ==
    IF section \in DOMAIN data THEN data ELSE Put(data, section, <<>>)

\* the loop over the sections other than config
RECURSIVE StoreSections(_, _)
StoreSections(data, sections) ==
    IF sections = <<>> THEN data
    ELSE StoreSections(IF Head(sections)[1] = s_config THEN data
                       ELSE StoreSection(WithSection(data, Head(sections)[1]),
                                         Head(sections)[1], Head(sections)[2]),
                       Tail(sections))

\* Settings._read_ini: the loop over the options of [config]
RECURSIVE ReadIniOptions(_, _, _)
ReadIniOptions(ls, pathname, items) ==
    IF items = <<>> \/ ls.raised # "" THEN ls
    ELSE ReadIniOptions(set_from_raw_string(ls, pathname, Head(items)[1], Head(items)[2]),
                        pathname, Tail(items))

PStrItems(items) == [i \in 1..Len(items) |-> <<items[i][1], PStr(items[i][2])>>]

\* the second loop of _read_ini and of _read_yaml
store_sections(ls, sections) ==
    IF ls.raised # "" THEN ls
    ELSE [ls EXCEPT !.st.all_config_data = StoreSections(ls.st.all_config_data, sections)]

read_ini(ls, pathname, f) ==
    store_sections(ReadIniOptions(ls, pathname, f.config),
                   [i \in 1..Len(f.sections) |->
                       <<f.sections[i][1], PStrItems(f.sections[i][2])>>])

\* the names of the package cliapp: what cliapp/__init__.py imports into it
cliapp_names == {"Settings", "Application", "AppException", "ManpageGenerator"}

\* raise cliapp.<name>(message naming pathname): the attribute of the package
\* is looked up first, and a name the package does not have is an
\* AttributeError whose message names the package and the attribute
raise_cliapp(ls, name, pathname) ==
    IF name \in cliapp_names
    THEN [ls EXCEPT !.raised = name, !.file = pathname]
    ELSE [ls EXCEPT !.raised = "AttributeError"]

\* Settings._check_yaml
check_yaml(ls, pathname, obj) ==
    IF obj.t # "dict" \/ ~DictHas(obj, s_config)
    THEN raise_cliapp(ls, "MalformedYamlConfig", pathname)
    ELSE ls

\* Settings._read_yaml: the loop over the items of config
RECURSIVE ReadYamlItems(_, _, _)
ReadYamlItems(ls, pathname, items) ==
    IF items = <<>> \/ ls.raised # "" THEN ls
    ELSE LET name == Head(items)[1] IN
         IF name \notin DOMAIN ls.st.settingses
         THEN [ls EXCEPT !.raised = "UnknownConfigVariable", !.file = pathname,
                         !.key = name]
         ELSE ReadYamlItems(
                 [ls EXCEPT !.st.objs[ls.st.settingses[name]] =
                     mark_default(set_value(ls.st.objs[ls.st.settingses[name]],
                                            Head(items)[2]))],
                 pathname, Tail(items))

\* the top-level keys of a yaml mapping other than config, with their items
SectionsAt(obj, idx) == [j \in 1..Len(idx) |-> <<obj.v[idx[j]][1], obj.v[idx[j]][2].v>>]
OtherSections(obj) ==
    SectionsAt(obj, Filter([i \in 1..Len(obj.v) |-> i],
                           {i \in 1..Len(obj.v) : obj.v[i][1] # s_config}))

\* obj.get('config') or {}
ItemsOrNone(c) == IF c.t = "dict" THEN c.v ELSE <<>>

read_checked_yaml(ls, pathname, obj) ==
    IF ls.raised # "" THEN ls
    ELSE store_sections(ReadYamlItems(ls, pathname, ItemsOrNone(DictGet(obj, s_config))),
                        OtherSections(obj))

read_yaml(ls, pathname, f) ==
    read_checked_yaml(check_yaml(ls, pathname, f.obj), pathname, f.obj)

\* a faulty load_file, to measure C7_MissingFiles against: the IOError of
\* a file that cannot be opened is raised for every file
load_file_strict(ls, files_, pathname) ==
    IF pathname \notin DOMAIN files_
    THEN [ls EXCEPT !.raised = "IOError", !.file = pathname]
    ELSE IF endswith(pathname, s_dotyaml)
         THEN read_yaml(ls, pathname, files_[pathname])
         ELSE read_ini(ls, pathname, files_[pathname])

\* Settings.load_configs: the loop over the config files.  A file that
\* cannot be opened is an IOError, re-raised for a required file only.
load_file(ls, files_, pathname) ==
    IF pathname \notin DOMAIN files_
    THEN IF pathname \in SeqToSet(ls.st.required_config_files)
         THEN [ls EXCEPT !.raised = "IOError", !.file = pathname]
         ELSE ls
    ELSE IF endswith(pathname, s_dotyaml)
         THEN read_yaml(ls, pathname, files_[pathname])
         ELSE read_ini(ls, pathname, files_[pathname])

RECURSIVE LoadFiles(_, _, _)
LoadFiles(ls, files_, paths) ==
    IF paths = <<>> \/ ls.raised # "" THEN ls
    ELSE LoadFiles(load_file(ls, files_, Head(paths)), files_, Tail(paths))

\* a faulty start of load_configs, to measure C26_ExtraData against: the
\* data of an earlier call is kept
LoadStart_keeping(st, paths) ==
    [st |-> [st EXCEPT !.config_files = PList(paths)],
     raised |-> "", file |-> <<>>, key |-> <<>>]

\* self._all_config_data = {}; for pathname in self.config_files
LoadStart(st, paths) ==
    [st |-> [st EXCEPT !.all_config_data = <<>>, !.config_files = PList(paths)],
     raised |-> "", file |-> <<>>, key |-> <<>>]

load_from(st, files_, paths) == LoadFiles(LoadStart(st, paths), files_, paths)

load_configs(st, env, files_) == load_from(st, files_, get_config_files(st, env))

(***************************************************************************)
(* The modelled application: the settings every Settings object starts     *)
(* with (_add_default_settings), and the two settings an application adds  *)
(* in add_settings, a string list with a short alias and a boolean.        *)
(***************************************************************************)
n_output    == <<"o","u","t","p","u","t">>
n_log       == <<"l","o","g">>
n_log_level == <<"l","o","g","-","l","e","v","e","l">>
n_log_max   == <<"l","o","g","-","m","a","x">>
n_log_keep  == <<"l","o","g","-","k","e","e","p">>
n_log_mode  == <<"l","o","g","-","m","o","d","e">>
n_dump_memory_profile ==
    <<"d","u","m","p","-","m","e","m","o","r","y","-","p","r","o","f","i","l","e">>
n_memory_dump_interval ==
    <<"m","e","m","o","r","y","-","d","u","m","p","-","i","n","t","e","r","v","a","l">>
n_pattern   == <<"p","a","t","t","e","r","n">>
n_e         == <<"e">>
n_verbose   == <<"v","e","r","b","o","s","e">>
n_v         == <<"v">>

c_debug    == <<"d","e","b","u","g">>
c_info     == <<"i","n","f","o">>
c_warning  == <<"w","a","r","n","i","n","g">>
c_error    == <<"e","r","r","o","r">>
c_critical == <<"c","r","i","t","i","c","a","l">>
c_fatal    == <<"f","a","t","a","l">>
c_simple   == <<"s","i","m","p","l","e">>
c_none     == <<"n","o","n","e">>
c_bogus    == <<"b","o","g","u","s">>
s_0600     == <<"0","6","0","0">>

EmptyStore ==
    [settingses |-> <<>>, objs |-> <<>>, canonical_names |-> <<>>,
     config_files |-> PNone, required_config_files |-> <<>>,
     all_config_data |-> <<>>]

\* a sequence of settings added one after the other
RECURSIVE AddAll(_, _)
AddAll(st, settings) ==
    IF settings = <<>> THEN st ELSE AddAll(add_setting(st, Head(settings)), Tail(settings))

\* Settings._add_default_settings
add_default_settings(st) ==
    AddAll(st,
      << NewSetting("String", <<n_output>>, PStr(s_empty), <<>>),
         NewSetting("String", <<n_log>>, PStr(s_empty), <<>>),
         NewSetting("Choice", <<n_log_level>>, PNone,
                    <<c_debug, c_info, c_warning, c_error, c_critical, c_fatal>>),
         NewSetting("ByteSize", <<n_log_max>>, PInt(0), <<>>),
         NewSetting("Integer", <<n_log_keep>>, PInt(10), <<>>),
         NewSetting("String", <<n_log_mode>>, PStr(s_0600), <<>>),
         NewSetting("Choice", <<n_dump_memory_profile>>, PNone, <<c_simple, c_none>>),
         NewSetting("Integer", <<n_memory_dump_interval>>, PInt(300), <<>>) >>)

\* Settings.__init__
NewSettings == add_default_settings(EmptyStore)

\* Application.add_settings of the modelled application; D is the default
\* it declares for the string list
AppSettings(D) ==
    << NewSetting("StringList", <<n_pattern, n_e>>, PList(D), <<>>),
       NewSetting("Boolean", <<n_verbose, n_v>>, PBool(FALSE), <<>>) >>

\* the freshly declared store
FreshStore(D) == AddAll(NewSettings, AppSettings(D))

(***************************************************************************)
(* The inputs: the environment, the command lines, the file systems        *)
(***************************************************************************)
MaxArgs == 2

s_p    == <<"p">>
s_home == <<"/","h">>

\* no /etc/p or ~/.config/p directory, no xdg library
Env == [progname |-> s_p, home |-> s_home, dirs |-> <<>>,
        xdg_is_available |-> FALSE, xdg_config_dirs |-> <<>>]

f_etc_conf  == <<"/","e","t","c","/","p",".","c","o","n","f">>
f_home_yaml == <<"/","h","/",".","p",".","y","a","m","l">>
f_x_conf    == <<"x",".","c","o","n","f">>

Arg(opt, val) == [opt |-> opt, val |-> PStr(val)]
Flag(opt)     == [opt |-> opt, val |-> PNone]

v_a == <<"a">>
v_x == <<"x">>
v_y == <<"y">>
v_1k == <<"1","k">>
v_5 == <<"5">>

\* the option occurrences of a command line given to the application
RunOptions ==
    { Arg(option_name(n_pattern), v_x),
      Arg(option_name(n_e), v_y),
      Arg(option_name(n_log_level), c_info),
      Arg(option_name(n_log_level), c_bogus),
      Flag(option_name(n_verbose)),
      Flag(s_dashdash \o s_no_ \o n_verbose),
      Arg(option_name(n_log_max), v_1k),
      Arg(option_name(n_log_keep), v_5),
      Arg(o_config, f_x_conf),
      Flag(o_no_default_configs) }

SeqsUpTo(S, n) == UNION {[1..k -> S] : k \in 0..n}

RunArgs == SeqsUpTo(RunOptions, MaxArgs)

\* the contents of the config files
n_nosuch == <<"n","o","s","u","c","h">>
Ini(config) == [config |-> config, sections |-> <<>>, obj |-> PNone]
Yaml(obj)   == [config |-> <<>>, sections |-> <<>>, obj |-> obj]

IniAll ==
    Ini(<< <<n_output, <<"b">> >>,
           <<n_pattern, <<"p",","," ","q">> >>,
           <<n_log_level, c_info>>,
           <<n_verbose, s_yes>>,
           <<n_log_max, <<"2","k">> >>,
           <<n_log_keep, <<"7">> >> >>)
IniPart ==
    Ini(<< <<n_log_level, c_bogus>>, <<n_verbose, <<"O","n">> >> >>)
IniUnknown ==
    Ini(<< <<n_output, <<"z">> >>, <<n_nosuch, s_1>> >>)
IniOther ==
    Ini(<< <<n_output, <<"c">> >>,
           <<n_e, <<"\"","r",",","s","\"">> >>,
           <<n_log_level, c_error>>,
           <<n_verbose, s_true>>,
           <<n_log_max, <<"4","k","i","b">> >>,
           <<n_log_keep, <<"9">> >> >>)
YamlAll ==
    Yaml(PDict(<< <<s_config,
                    PDict(<< <<n_output, PStr(<<"d">>)>>,
                             <<n_pattern, PList(<< <<"r">>, <<"s">> >>)>>,
                             <<n_log_level, PStr(c_warning)>>,
                             <<n_verbose, PBool(FALSE)>>,
                             <<n_log_max, PInt(3000)>>,
                             <<n_log_keep, PInt(8)>> >>)>> >>))
YamlPart ==
    Yaml(PDict(<< <<s_config, PDict(<< <<n_pattern, PStr(<<"t">>)>> >>)>> >>))
YamlUnknown ==
    Yaml(PDict(<< <<s_config, PDict(<< <<n_nosuch, PInt(1)>> >>)>> >>))

Missing == [config |-> <<>>, sections |-> <<>>, obj |-> Raise("IOError")]

\* a file system: what each of three paths holds, Missing for no file
FileSystems ==
    { [path \in {f \in {f_etc_conf, f_home_yaml, f_x_conf} :
                   (IF f = f_etc_conf THEN a ELSE IF f = f_home_yaml THEN b ELSE c) # Missing}
         |-> IF path = f_etc_conf THEN a ELSE IF path = f_home_yaml THEN b ELSE c] :
      a \in {Missing, IniAll, IniPart, IniUnknown},
      b \in {Missing, YamlAll, YamlPart, YamlUnknown},
      c \in {Missing, IniOther} }

(***************************************************************************)
(* The state: the fields of the Settings object, and of the run            *)
(***************************************************************************)
VARIABLES
    settingses,             \* Settings._settingses
    objs,                   \* the Setting objects
    canonical_names,        \* Settings._canonical_names
    config_files,           \* Settings._config_files
    required_config_files,  \* Settings._required_config_files
    all_config_data,        \* Settings._all_config_data
    argv,                   \* the command line of the run
    fs,                     \* the files load_configs found
    loaded,                 \* the list of files load_configs iterated over
    assigned,               \* <<name, value>> of settings[name] = value, or <<>>
    stdout,                 \* what the last parse_args wrote to sys.stdout
    environ,                \* the environment default_config_files was called in
    called,                 \* the arguments of the last call of a function
    app,                    \* Application.fileno, global_lineno, lineno
    inputs,                 \* the input files and how far they are read
    result,                 \* what the last call of a function returned
    ops,                    \* the operations called so far
    outcome                 \* how the last operation ended

store_vars == <<settingses, objs, canonical_names, config_files,
                required_config_files, all_config_data>>
vars == <<settingses, objs, canonical_names, config_files,
          required_config_files, all_config_data, argv, fs, loaded, assigned,
          stdout, environ, called, app, inputs, result, ops, outcome>>

Store ==
    [settingses |-> settingses, objs |-> objs, canonical_names |-> canonical_names,
     config_files |-> config_files, required_config_files |-> required_config_files,
     all_config_data |-> all_config_data]

SetStore(st) ==
    /\ settingses' = st.settingses
    /\ objs' = st.objs
    /\ canonical_names' = st.canonical_names
    /\ config_files' = st.config_files
    /\ required_config_files' = st.required_config_files
    /\ all_config_data' = st.all_config_data

\* how an operation ended: normally, by sys.exit(code), or by an exception
Returned == [exit |-> PNone, raised |-> "", file |-> <<>>, key |-> <<>>]
Running == outcome = Returned

ParseOutcome(r) == [Returned EXCEPT !.exit = r.exit, !.raised = r.raised]
LoadOutcome(r)  == [Returned EXCEPT !.raised = r.raised, !.file = r.file, !.key = r.key]

\* the store and the outcome after parse_args, after load_configs
Parsed(r) == SetStore(r.st) /\ outcome' = ParseOutcome(r) /\ stdout' = r.out
Loaded(r) == SetStore(r.st) /\ outcome' = LoadOutcome(r)

InitStore(st) ==
    /\ settingses = st.settingses
    /\ objs = st.objs
    /\ canonical_names = st.canonical_names
    /\ config_files = st.config_files
    /\ required_config_files = st.required_config_files
    /\ all_config_data = st.all_config_data

\* Application.__init__: the counters of the input
NewApplication == [fileno |-> 0, global_lineno |-> 0, lineno |-> 0]
\* no input yet: files are the inputs, [name, lines] each; at is the index
\* of the file being read, read the number of its lines read so far
NoInputs == [files |-> <<>>, at |-> 0, read |-> 0]

\* the store after construction and add_settings
Init ==
    /\ \E D \in {<<>>, << <<"d">> >>} : InitStore(FreshStore(D))
    /\ argv = <<>>
    /\ fs = <<>>
    /\ loaded = <<>>
    /\ assigned = <<>>
    /\ stdout = NoOut
    /\ environ = Env
    /\ called = <<>>
    /\ app = NewApplication
    /\ inputs = NoInputs
    /\ result = PNone
    /\ ops = <<>>
    /\ outcome = Returned

(***************************************************************************)
(* Application._run: parse the command line for the config files, load     *)
(* the config files, parse the command line again                          *)
(***************************************************************************)
\* self.parse_args(args, configs_only=True)
RunParseConfigs ==
    /\ ops = <<>>
    /\ Running
    /\ \E args \in RunArgs :
          /\ Parsed(parse_args(Store, Env, args, TRUE, FALSE))
          /\ argv' = args
    /\ ops' = <<"parse_args(configs_only)">>
    /\ UNCHANGED <<fs, loaded, assigned, environ, result, called, app, inputs>>

\* self.settings.load_configs()
RunLoadConfigs ==
    /\ ops = <<"parse_args(configs_only)">>
    /\ Running
    /\ \E f \in FileSystems :
          /\ Loaded(load_configs(Store, Env, f))
          /\ fs' = f
    /\ loaded' = get_config_files(Store, Env)
    /\ ops' = Append(ops, "load_configs")
    /\ UNCHANGED <<argv, assigned, stdout, environ, result, called, app, inputs>>

\* args = self.parse_args(args)
RunParseArgs ==
    /\ ops = <<"parse_args(configs_only)", "load_configs">>
    /\ Running
    /\ Parsed(parse_args(Store, Env, argv, FALSE, FALSE))
    /\ ops' = Append(ops, "parse_args")
    /\ UNCHANGED <<argv, fs, loaded, assigned, environ, result, called, app, inputs>>

Next == RunParseConfigs \/ RunLoadConfigs \/ RunParseArgs

Spec == Init /\ [][Next]_vars

(***************************************************************************)
(* The calls an application makes on a Settings object itself: one more    *)
(* setting registered or one value assigned, then one parse_args           *)
(***************************************************************************)
n_bar == <<"b","a","r">>
n_b   == <<"b">>

\* the settings registered after the others: with the canonical name of an
\* earlier setting as an alias, with an alias of an earlier setting as an
\* alias, with the canonical name of an earlier setting, with new names
LaterSettings ==
    { NewSetting("String", <<n_bar, n_output>>, PStr(s_empty), <<>>),
      NewSetting("Integer", <<n_bar, n_e>>, PInt(3), <<>>),
      NewSetting("Boolean", <<n_verbose>>, PBool(FALSE), <<>>),
      NewSetting("String", <<n_bar, n_b>>, PStr(s_empty), <<>>) }

\* the assignments settings[name] = value
Assignments ==
    { <<n_pattern, PList(<< <<"p">> >>)>>,
      <<n_e, PList(<<>>)>>,
      <<n_log_level, PStr(c_bogus)>>,
      <<n_log_level, PStr(c_error)>>,
      <<n_verbose, PBool(TRUE)>>,
      <<n_nosuch, PStr(v_a)>> }

\* the option occurrences of the command line of a direct parse_args
ApiOptions == RunOptions \cup {Flag(o_help), Arg(option_name(n_output), v_a)}

ApiArgs == SeqsUpTo(ApiOptions, MaxArgs)

\* settings.string(...), settings.boolean(...) and the like: _add_setting
AddSetting ==
    /\ ops = <<>>
    /\ \E setting \in LaterSettings : SetStore(add_setting(Store, setting))
    /\ ops' = <<"add_setting">>
    /\ UNCHANGED <<argv, fs, loaded, assigned, outcome, stdout, environ, result, called, app, inputs>>

\* settings[name] = value
SetItem ==
    /\ ops = <<>>
    /\ \E a \in Assignments :
          /\ assigned' = a
          /\ SetStore(setitem(Store, a[1], a[2]))
          /\ outcome' = [Returned EXCEPT !.raised = lookup(Store, a[1])]
    /\ ops' = <<"setitem">>
    /\ UNCHANGED <<argv, fs, loaded, stdout, environ, result, called, app, inputs>>

\* settings.parse_args(args, suppress_errors=...)
ParseArgs ==
    /\ ops \in {<<>>, <<"add_setting">>, <<"setitem">>}
    /\ Running
    /\ \E args \in ApiArgs, suppress_errors \in BOOLEAN :
          /\ Parsed(parse_args(Store, Env, args, FALSE, suppress_errors))
          /\ argv' = args
          /\ ops' = Append(ops, IF suppress_errors THEN "parse_args(suppress_errors)"
                                ELSE "parse_args")
    /\ UNCHANGED <<fs, loaded, assigned, environ, result, called, app, inputs>>

NextApi == AddSetting \/ SetItem \/ ParseArgs

SpecApi == Init /\ [][NextApi]_vars

(***************************************************************************)
(* Boolean settings and their --no- options: an application declares a few *)
(* more settings in add_settings, then parses a command line               *)
(***************************************************************************)
n_foo    == <<"f","o","o">>
n_f      == <<"f">>
n_no_foo == <<"n","o","-","f","o","o">>
n_no_bar == <<"n","o","-","b","a","r">>

\* what add_settings declares after the other settings: a Boolean with
\* one long name, with a long and a short name, with a short name only,
\* with two long names, and settings named no-foo, no-bar beside them
Declarations ==
    { << NewSetting("Boolean", <<n_foo>>, PBool(TRUE), <<>>) >>,
      << NewSetting("Boolean", <<n_foo, n_f>>, PBool(TRUE), <<>>) >>,
      << NewSetting("Boolean", <<n_f>>, PBool(TRUE), <<>>) >>,
      << NewSetting("Boolean", <<n_foo, n_bar>>, PBool(TRUE), <<>>) >>,
      << NewSetting("Boolean", <<n_foo>>, PBool(TRUE), <<>>),
         NewSetting("String", <<n_no_foo>>, PStr(s_empty), <<>>) >>,
      << NewSetting("String", <<n_no_foo>>, PStr(s_empty), <<>>),
         NewSetting("Boolean", <<n_foo, n_f>>, PBool(TRUE), <<>>) >>,
      << NewSetting("Boolean", <<n_foo, n_bar>>, PBool(TRUE), <<>>),
         NewSetting("String", <<n_no_foo>>, PStr(s_empty), <<>>) >>,
      << NewSetting("Boolean", <<n_foo, n_bar>>, PBool(TRUE), <<>>),
         NewSetting("String", <<n_no_foo>>, PStr(s_empty), <<>>),
         NewSetting("Boolean", <<n_no_bar>>, PBool(FALSE), <<>>) >> }

\* the option occurrences of the command lines parsed after them
NegOptions ==
    { Flag(option_name(n_foo)),
      Flag(option_name(n_f)),
      Flag(option_name(n_bar)),
      Flag(option_name(n_no_foo)),
      Arg(option_name(n_no_foo), v_a),
      Flag(option_name(n_no_bar)),
      Flag(option_name(n_verbose)),
      Flag(s_dashdash \o s_no_ \o n_verbose) }

NegArgs == SeqsUpTo(NegOptions, MaxArgs)

\* Application.add_settings
Declare ==
    /\ ops = <<>>
    /\ \E settings \in Declarations : SetStore(AddAll(Store, settings))
    /\ ops' = <<"add_settings">>
    /\ UNCHANGED <<argv, fs, loaded, assigned, outcome, stdout, environ, result, called, app, inputs>>

\* settings.parse_args(args)
ParseDeclared ==
    /\ ops = <<"add_settings">>
    /\ \E args \in NegArgs :
          /\ Parsed(parse_args(Store, Env, args, FALSE, FALSE))
          /\ argv' = args
    /\ ops' = Append(ops, "parse_args")
    /\ UNCHANGED <<fs, loaded, assigned, environ, result, called, app, inputs>>

NextNeg == Declare \/ ParseDeclared

SpecNeg == Init /\ [][NextNeg]_vars

(***************************************************************************)
(* The values of the settings: an application assigns a value to a         *)
(* setting, then requires the setting, or dumps the configuration and      *)
(* loads the dump                                                          *)
(***************************************************************************)
\* the values assigned to the Boolean setting verbose
BooleanValues ==
    { PStr(<<"y","e","s">>), PStr(<<"Y","E","S">>), PStr(<<"o","n">>), PStr(<<"O","n">>),
      PStr(<<"1">>), PStr(<<"t","r","u","e">>), PStr(<<"T","r","u","e">>),
      PStr(<<"n","o">>), PStr(<<"o","f","f">>), PStr(<<"0">>), PStr(<<"2">>),
      PStr(<<"f","a","l","s","e">>), PStr(<<"y">>), PStr(<<" ","y","e","s">>),
      PStr(<<"y","e","s"," ">>), PStr(<<>>),
      PBool(TRUE), PBool(FALSE), PInt(1), PInt(0), PInt(2),
      PTuple(<<>>), PList(<<>>), PList(<< <<"x">> >>), PNone }

\* the strings assigned to the ByteSize setting log-max
SizeStrings ==
    { <<"0">>, <<"1","2","3">>, <<"1","2","3","k">>, <<"1","2","3","m">>,
      <<"1","2","3","g">>, <<"1","2","3","t">>, <<"1","2","3","k","i">>,
      <<"1","2","3","m","i">>, <<"1","2","3","g","i">>, <<"1","2","3","t","i">>,
      <<"1","2","3","k","b">>, <<"1","2","3","K","i","B">>, <<"1","2","3","T","B">>,
      <<"1","2","3","b">>, <<"1","2","3"," ","k">>, <<"7","M","b">>,
      <<"x","y","z","z","y">>, <<>>, <<"k">>, <<"1","2","3","x">>, <<"-","1">>,
      <<"1","k","k">>, <<"1","k"," ","b">>, <<"1","b","k">>,
      <<"1",".","5","k">>, <<"1",".","0","0","1","k">>, <<"0",".","3","k">>,
      <<"1",".","5">>,
      <<"9","0","0","7","1","9","9","2","5","4","7","4","0","9","9","2">>,
      <<"9","0","0","7","1","9","9","2","5","4","7","4","0","9","9","3">>,
      <<"9","0","0","7","1","9","9","2","5","4","7","4","0","9","9","3","k">> }

\* white space before and after a size
Spaces == { <<>>, <<" ">>, <<"\t">>, <<" "," ">>, <<"\n">> }
SpacedSizes == {<<"1","2","3","k">>, <<"1","2","3">>, <<"7","M","b">>}
SizeValues ==
    {PStr(x) : x \in SizeStrings}
    \cup {PStr(before \o x \o after) : before \in Spaces, after \in Spaces, x \in SpacedSizes}
    \cup { PInt(0), PInt(123), PInt(123000),
           PLong(<<"9","0","0","7","1","9","9","2","5","4","7","4","0","9","9","2">>),
           PLong(<<"9","0","0","7","1","9","9","2","5","4","7","4","0","9","9","3">>) }

\* the values assigned to the other settings
OtherValues ==
    { <<n_output, PStr(<<>>)>>, <<n_output, PStr(v_a)>>, <<n_output, PNone>>,
      <<n_output, PStr(<<" ","a"," ">>)>>, <<n_output, PStr(<<"a",",","b">>)>>,
      <<n_log_level, PStr(c_info)>>, <<n_log_level, PStr(c_error)>>,
      <<n_log_keep, PInt(0)>>, <<n_log_keep, PInt(5)>>, <<n_log_keep, PInt(0 - 3)>>,
      <<n_log_keep, PStr(<<" ","7">>)>>,
      <<n_pattern, PList(<<>>)>>, <<n_pattern, PList(<< v_x >>)>>,
      <<n_pattern, PList(<< v_x, v_y >>)>>, <<n_pattern, PList(<< <<"a",",","b">> >>)>>,
      <<n_pattern, PList(<< <<"a",",","b">>, v_x >>)>>,
      <<n_pattern, PList(<< <<" ","x">> >>)>>, <<n_pattern, PList(<< <<"x"," ","y">> >>)>>,
      <<n_pattern, PList(<< <<>> >>)>>, <<n_pattern, PList(<< <<"a","\"","b">> >>)>>,
      <<n_pattern, PStr(v_x)>> }

Values ==
    {<<n_verbose, v>> : v \in BooleanValues}
    \cup {<<n_log_max, v>> : v \in SizeValues}
    \cup OtherValues

f_dump == <<"d","u","m","p",".","c","o","n","f">>

\* the [config] section of the file dump_config writes
Exported(st) ==
    [i \in 1..Len(as_cp(st).config) |->
        <<as_cp(st).config[i][1], as_cp(st).config[i][2].v>>]

\* _read_ini of that section, as it was written
reload(st) ==
    ReadIniOptions([st |-> st, raised |-> "", file |-> <<>>, key |-> <<>>],
                   f_dump, Exported(st))

\* settings[name] = value
Assign ==
    /\ ops = <<>>
    /\ \E a \in Values :
          /\ assigned' = a
          /\ SetStore(setitem(Store, a[1], a[2]))
    /\ ops' = <<"setitem">>
    /\ UNCHANGED <<argv, fs, loaded, outcome, stdout, environ, result, called, app, inputs>>

\* settings.require(name), for the setting assigned to
Require ==
    /\ ops = <<"setitem">>
    /\ result' = require(Store, <<assigned[1]>>)
    /\ ops' = Append(ops, "require")
    /\ UNCHANGED <<store_vars, argv, fs, loaded, assigned, outcome, stdout, environ, called, app, inputs>>

\* settings.dump_config(f), then _read_ini of the file
Reload ==
    /\ ops = <<"setitem">>
    /\ SetStore(reload(Store).st)
    /\ outcome' = LoadOutcome(reload(Store))
    /\ ops' = Append(ops, "reload")
    /\ UNCHANGED <<argv, fs, loaded, assigned, stdout, environ, result, called, app, inputs>>

NextValue == Assign \/ Require \/ Reload

SpecValue == Init /\ [][NextValue]_vars

(***************************************************************************)
(* The options whose action is deferred to the end of the command line:    *)
(* a command line with --dump-config and the like, parsed for the config   *)
(* files only or in full                                                   *)
(***************************************************************************)
DeferredOptions == {o_dump_config, o_dump_setting_names, o_list_config_files, o_help_all}

\* the option occurrences of these command lines
DumpOptions ==
    {Flag(o) : o \in DeferredOptions}
    \cup { Arg(option_name(n_output), v_a),
           Arg(option_name(n_pattern), v_x),
           Flag(option_name(n_verbose)),
           Arg(option_name(n_log_level), c_bogus),
           Arg(o_config, f_x_conf),
           Flag(o_no_default_configs),
           Flag(o_help) }

DumpArgs == SeqsUpTo(DumpOptions, MaxArgs)

\* settings.parse_args(args, configs_only=True)
ParseForConfigs ==
    /\ ops = <<>>
    /\ \E args \in DumpArgs :
          /\ Parsed(parse_args(Store, Env, args, TRUE, FALSE))
          /\ argv' = args
    /\ ops' = <<"parse_args(configs_only)">>
    /\ UNCHANGED <<fs, loaded, assigned, environ, result, called, app, inputs>>

\* settings.parse_args(args)
ParseInFull ==
    /\ ops = <<>>
    /\ \E args \in DumpArgs :
          /\ Parsed(parse_args(Store, Env, args, FALSE, FALSE))
          /\ argv' = args
    /\ ops' = <<"parse_args">>
    /\ UNCHANGED <<fs, loaded, assigned, environ, result, called, app, inputs>>

NextDump == ParseForConfigs \/ ParseInFull

SpecDump == Init /\ [][NextDump]_vars

(***************************************************************************)
(* The default config files, in environments with and without the xdg      *)
(* library, with and without the directories of config files               *)
(***************************************************************************)
d_etc_p    == <<"/","e","t","c","/","p">>
d_home_p   == <<"/","h","/",".","c","o","n","f","i","g","/","p">>
d_xdg_home == <<"/","h","/",".","c","o","n","f","i","g">>
d_xdg_etc  == <<"/","e","t","c","/","x","d","g">>
d_xdg_p    == <<"/","e","t","c","/","x","d","g","/","p">>
b_a_conf   == <<"a",".","c","o","n","f">>
b_b_yaml   == <<"b",".","y","a","m","l">>
b_readme   == <<"r","e","a","d","m","e">>

\* what listdir returns for a directory that exists
Listings == { <<b_a_conf>>, <<b_b_yaml, b_a_conf>>, <<b_readme>> }

\* the directories that exist, with their listings
DirMaps ==
    UNION { [D -> Listings] : D \in SUBSET {d_etc_p, d_home_p, d_xdg_p} }

\* xdg.BaseDirectory.xdg_config_dirs: the user's directory, then the
\* system's
XdgDirs == { <<d_xdg_home, d_xdg_etc>>, <<d_xdg_home>>,
             <<d_xdg_home, d_xdg_etc, d_xdg_etc>> }

Envs ==
    { [progname |-> s_p, home |-> s_home, dirs |-> dirs,
       xdg_is_available |-> xdg, xdg_config_dirs |-> IF xdg THEN xdg_dirs ELSE <<>>] :
         dirs \in DirMaps, xdg \in BOOLEAN, xdg_dirs \in XdgDirs }

\* settings.default_config_files
DefaultConfigFiles ==
    /\ ops = <<>>
    /\ \E env \in Envs :
          /\ environ' = env
          /\ result' = PList(default_config_files(env))
    /\ ops' = <<"default_config_files">>
    /\ UNCHANGED <<store_vars, argv, fs, loaded, assigned, outcome, stdout, called, app, inputs>>

NextFiles == DefaultConfigFiles

SpecFiles == Init /\ [][NextFiles]_vars

(***************************************************************************)
(* The config files of one directory: listconfs is called with the name of *)
(* a directory that may or may not exist                                   *)
(***************************************************************************)
b_B_conf   == <<"B",".","c","o","n","f">>
b_a_conf_  == <<"a",".","c","o","n","f","~">>

ListedNames == {b_a_conf, b_B_conf, b_b_yaml, b_readme, b_a_conf_}

MaxListed == 3

\* what listdir returns: names of the directory, each once, in any order
Distinct(seq) == \A i, j \in 1..Len(seq) : i # j => seq[i] # seq[j]
ListDirs == { l \in SeqsUpTo(ListedNames, MaxListed) : Distinct(l) }

\* settings.listconfs(dirname)
ListConfs ==
    /\ ops = <<>>
    /\ \E l \in ListDirs, exists \in BOOLEAN, dirname \in {d_etc_p, d_home_p} :
          /\ environ' = [Env EXCEPT !.dirs = IF exists THEN [d \in {d_etc_p} |-> l] ELSE <<>>]
          /\ called' = <<dirname>>
          /\ result' = PList(listconfs(environ'.dirs, dirname))
    /\ ops' = <<"listconfs">>
    /\ UNCHANGED <<store_vars, argv, fs, loaded, assigned, outcome, stdout, app, inputs>>

NextList == ListConfs

SpecList == Init /\ [][NextList]_vars

(***************************************************************************)
(* The config files with sections of their own and the yaml files that are *)
(* no mapping or have no config key: load_configs is called once or twice  *)
(* on the default config files                                             *)
(***************************************************************************)
f_etc_yaml  == <<"/","e","t","c","/","p",".","y","a","m","l">>
f_home_conf == <<"/","h","/",".","p",".","c","o","n","f">>
n_extra == <<"e","x","t","r","a">>
n_other == <<"o","t","h","e","r">>
n_k     == <<"k">>
n_m     == <<"m">>

IniWith(config, sections) == [config |-> config, sections |-> sections, obj |-> PNone]

IniExtra ==
    IniWith(<< <<n_output, <<"b">> >> >>,
            << <<n_extra, << <<n_k, <<"1">> >>, <<n_m, <<"2">> >> >> >> >>)
IniExtraOther ==
    IniWith(<< <<n_output, <<"c">> >> >>,
            << <<n_extra, << <<n_k, <<"3">> >> >> >>,
               <<n_other, << <<n_output, <<"z">> >> >> >> >>)
\* a yaml file that holds a list
YamlList == Yaml(PList(<< <<"x">> >>))
\* an empty yaml file
YamlNone == Yaml(PNone)
\* a mapping without config
YamlNoConfig ==
    Yaml(PDict(<< <<n_extra, PDict(<< <<n_k, PStr(<<"9">>)>> >>)>> >>))
YamlExtra ==
    Yaml(PDict(<< <<s_config, PDict(<< <<n_output, PStr(<<"d">>)>> >>)>>,
                  <<n_extra, PDict(<< <<n_k, PStr(<<"5">>)>>,
                                      <<n_log, PStr(<<"6">>)>> >>)>> >>))
YamlOther ==
    Yaml(PDict(<< <<n_other, PDict(<< <<n_m, PStr(<<"7">>)>>, <<<<"K">>, PStr(<<"8">>)>> >>)>>,
                  <<s_config, PNone>> >>))

\* what the four default config files hold, Missing for no file
Holding(a, b, c, d) ==
    LET held == [path \in {f_etc_conf, f_etc_yaml, f_home_conf, f_home_yaml} |->
                    IF path = f_etc_conf THEN a ELSE IF path = f_etc_yaml THEN b
                    ELSE IF path = f_home_conf THEN c ELSE d]
    IN  [path \in {f \in DOMAIN held : held[f] # Missing} |-> held[path]]

LoadFileSystems ==
    { Holding(a, b, c, d) :
        a \in {Missing, IniExtra},
        b \in {Missing, YamlList, YamlNoConfig, YamlExtra},
        c \in {Missing, IniExtraOther},
        d \in {Missing, YamlNone, YamlOther} }

MaxLoads == 2

\* settings.load_configs()
LoadConfigs ==
    /\ Len(ops) < MaxLoads
    /\ Running
    /\ \E f \in LoadFileSystems :
          /\ Loaded(load_configs(Store, Env, f))
          /\ fs' = f
    /\ loaded' = get_config_files(Store, Env)
    /\ ops' = Append(ops, "load_configs")
    /\ UNCHANGED <<argv, assigned, stdout, environ, result, called, app, inputs>>

NextLoad == LoadConfigs

SpecLoad == Init /\ [][NextLoad]_vars

(***************************************************************************)
(* Application.run.  An exception is a record                              *)
(*   cls: its class        text: str(e)         code: SystemExit.code      *)
(*   errno, filename: the fields of an IOError or OSError                  *)
(* and the end of run is a record                                          *)
(*   ends: "return" or "SystemExit"    code: the code of sys.exit          *)
(*   stderr: what was written to stderr, [form |-> the format string or    *)
(*           "traceback", text |-> str(e)]                                 *)
(*   logged: whether log() was called with the traceback                   *)
(*   escaped: the exception the try statement of _run caught               *)
(***************************************************************************)
s_boom == <<"b","o","o","m">>
s_must_give_subcommand == <<"m","u","s","t"," ","g","i","v","e"," ","s","u","b","c","o","m","m","a","n","d">>
s_unknown_variable == <<":"," ","U","n","k","n","o","w","n"," ","c","o","n","f","i","g","u","r","a","t","i","o","n"," ","v","a","r","i","a","b","l","e"," ">>
s_no_such_file == <<"[","E","r","r","n","o"," ","2","]"," ","N","o"," ","s","u","c","h"," ","f","i","l","e"," ","o","r"," ","d","i","r","e","c","t","o","r","y">>
s_broken_pipe == <<"[","E","r","r","n","o"," ","3","2","]"," ","B","r","o","k","e","n"," ","p","i","p","e">>
s_quote == <<"'">>
f_in == <<"i","n">>

Exception(cls, text) ==
    [cls |-> cls, text |-> text, code |-> PNone, errno |-> "", filename |-> PNone]
NoException == Exception("", <<>>)
SystemExit(code) == [Exception("SystemExit", <<>>) EXCEPT !.code = code]
EnvironmentError(cls, errno, strerror, filename) ==
    [cls |-> cls, code |-> PNone, errno |-> errno, filename |-> filename,
     text |-> IF filename = PNone THEN strerror
              ELSE strerror \o <<":"," ">> \o s_quote \o filename.v \o s_quote]

\* the exception an operation of the settings ended with: raised is its
\* class, file and key what its message names
Raised(raised, file, key) ==
    CASE raised = "UnknownConfigVariable" ->
            Exception(raised, file \o s_unknown_variable \o key)
      [] raised = "IOError" ->
            EnvironmentError(raised, "ENOENT", s_no_such_file, PStr(file))
      [] OTHER -> Exception(raised, <<>>)

\* class AppException and its subclasses
AppExceptions == {"AppException", "UnknownConfigVariable", "MalformedYamlConfig"}

\* Application.setup_logging: the settings it reads
setup_logging(st) ==
    IF ~Truthy(getitem(st, n_log)) THEN PNone
    ELSE IF IsRaise(getitem(st, n_log_max)) THEN getitem(st, n_log_max)
    ELSE IF IsRaise(getitem(st, n_log_keep)) THEN getitem(st, n_log_keep)
    ELSE PNone

\* how process_args of the application ends
ProcessEnds ==
    { NoException,
      Exception("AppException", s_boom),
      Exception("KeyboardInterrupt", <<>>),
      SystemExit(PInt(3)),
      SystemExit(PInt(0)),
      SystemExit(PNone),
      SystemExit(PStr(s_must_give_subcommand)),
      EnvironmentError("IOError", "EPIPE", s_broken_pipe, PNone),
      EnvironmentError("IOError", "ENOENT", s_no_such_file, PStr(f_in)),
      EnvironmentError("IOError", "EPIPE", s_broken_pipe, PStr(f_in)),
      EnvironmentError("OSError", "ENOENT", s_no_such_file, PStr(f_in)),
      Exception("ValueError", s_boom) }

\* the body of the try statement of _run, from a step on: the store it
\* leaves and the exception that escapes it
Body(st, e) == [st |-> st, escaped |-> e]

OfParse(r) ==
    IF r.exit.t # "None" THEN SystemExit(r.exit) ELSE Raised(r.raised, <<>>, <<>>)

process_from(st, process) ==
    IF IsRaise(setup_logging(st)) THEN Body(st, Exception(setup_logging(st).v, <<>>))
    ELSE Body(st, process)

parsed_from(r, process) ==
    IF OfParse(r) # NoException THEN Body(r.st, OfParse(r))
    ELSE process_from(r.st, process)

loaded_from(r, env, args, process) ==
    IF r.raised # "" THEN Body(r.st, Raised(r.raised, r.file, r.key))
    ELSE parsed_from(parse_args(r.st, env, args, FALSE, FALSE), process)

configs_from(r, env, files_, args, process) ==
    IF OfParse(r) # NoException THEN Body(r.st, OfParse(r))
    ELSE loaded_from(load_configs(r.st, env, files_), env, args, process)

run_body(st, env, files_, args, process) ==
    configs_from(parse_args(st, env, args, TRUE, FALSE), env, files_, args, process)

\* the except clauses of _run
NoErr == [form |-> "", text |-> <<>>]
Ends(ends, code, stderr, logged, e) ==
    [ends |-> ends, code |-> code, stderr |-> stderr, logged |-> logged, escaped |-> e]
ErrorExit(e) ==
    Ends("SystemExit", PInt(1), [form |-> "ERROR: %s\n", text |-> e.text], TRUE, e)

\* a faulty handler, to measure C23_RunEnds against: an interrupt is
\* handled like any other exception
handle_alike(e) ==
    IF e = NoException THEN Ends("return", PNone, NoErr, FALSE, e)
    ELSE IF e.cls \in AppExceptions \cup {"IOError", "OSError"} THEN ErrorExit(e)
    ELSE IF e.cls = "SystemExit" THEN Ends("SystemExit", e.code, NoErr, FALSE, e)
    ELSE Ends("SystemExit", PInt(1), [form |-> "traceback", text |-> e.text], TRUE, e)

handle(e) ==
    IF e = NoException THEN Ends("return", PNone, NoErr, FALSE, e)
    ELSE IF e.cls \in AppExceptions THEN ErrorExit(e)
    ELSE IF e.cls = "SystemExit" THEN Ends("SystemExit", e.code, NoErr, FALSE, e)
    ELSE IF e.cls = "KeyboardInterrupt" THEN Ends("SystemExit", PInt(255), NoErr, FALSE, e)
    ELSE IF e.cls = "IOError"
         THEN IF e.errno = "EPIPE" /\ e.filename = PNone
              THEN Ends("SystemExit", PInt(1), NoErr, FALSE, e)
              ELSE ErrorExit(e)
    ELSE IF e.cls = "OSError" THEN ErrorExit(e)
    ELSE Ends("SystemExit", PInt(1), [form |-> "traceback", text |-> e.text], TRUE, e)

\* the command lines and the file systems of the runs
RunsArgs ==
    { <<>>, <<Flag(o_help)>>, <<Arg(o_config, f_x_conf)>>,
      <<Arg(option_name(n_log_keep), <<"x">>)>>,
      <<Arg(option_name(n_log), <<"l">>)>>,
      <<Flag(o_dump_setting_names)>> }
IniLogKeep == Ini(<< <<n_log, <<"l">> >>, <<n_log_keep, <<"x">> >> >>)
RunsFileSystems ==
    { Holding(a, b, Missing, Missing) :
        a \in {Missing, IniExtra, IniUnknown, IniLogKeep},
        b \in {Missing, YamlList, YamlExtra} }

\* app.run(args)
Run ==
    /\ ops = <<>>
    /\ \E args \in RunsArgs, f \in RunsFileSystems, process \in ProcessEnds :
          /\ SetStore(run_body(Store, Env, f, args, process).st)
          /\ result' = handle(run_body(Store, Env, f, args, process).escaped)
          /\ argv' = args
          /\ fs' = f
          /\ called' = <<process>>
    /\ ops' = <<"run">>
    /\ UNCHANGED <<loaded, assigned, stdout, environ, outcome, app, inputs>>

NextRun == Run

SpecRun == Init /\ [][NextRun]_vars

(***************************************************************************)
(* Application.process_inputs: the input files are read line by line, and  *)
(* process_input_line is called for every line                             *)
(***************************************************************************)
MaxFiles == 3
MaxLines == 2

f_foo == <<"f","o","o">>
f_bar == <<"b","a","r">>
InputNames == {f_foo, f_bar}
InputLines == <<"a", "b", "c">>
\* what a file may hold
Contents == { SubSeq(InputLines, 1, n) : n \in 0..MaxLines }

\* for arg in args or ['-']
args_or_dash(args) == IF args = <<>> THEN <<s_dash>> ELSE args

\* a faulty process_input, to measure C24_Counters against: lineno is not
\* reset for a new file
start_input_counting_on(a) == [a EXCEPT !.fileno = @ + 1]

\* process_input: self.fileno += 1; self.lineno = 0
start_input(a) == [a EXCEPT !.fileno = @ + 1, !.lineno = 0]

\* process_input: self.global_lineno += 1; self.lineno += 1
next_line(a) == [a EXCEPT !.global_lineno = @ + 1, !.lineno = @ + 1]

\* app.process_inputs(args): the loop starts
ProcessInputs ==
    /\ ops = <<>>
    /\ \E args \in SeqsUpTo(InputNames, MaxFiles), holds \in [InputNames \cup {s_dash} -> Contents] :
          inputs' = [files |-> [i \in 1..Len(args_or_dash(args)) |->
                                   [name |-> args_or_dash(args)[i],
                                    lines |-> holds[args_or_dash(args)[i]]]],
                     at |-> 0, read |-> 0]
    /\ ops' = <<"process_inputs">>
    /\ UNCHANGED <<store_vars, argv, fs, loaded, assigned, stdout, environ, called, app,
                   result, outcome>>

\* the file being read has no line left
AtEnd == IF inputs.at = 0 THEN TRUE ELSE inputs.read = Len(inputs.files[inputs.at].lines)

\* self.process_input(arg) for the next arg: the file is opened
ProcessInput ==
    /\ Len(ops) > 0
    /\ ops[1] = "process_inputs"
    /\ AtEnd
    /\ inputs.at < Len(inputs.files)
    /\ app' = start_input(app)
    /\ inputs' = [inputs EXCEPT !.at = @ + 1, !.read = 0]
    /\ ops' = <<"process_inputs", "process_input">>
    /\ UNCHANGED <<store_vars, argv, fs, loaded, assigned, stdout, environ, called,
                   result, outcome>>

\* for line in f: self.process_input_line(name, line)
ProcessInputLine ==
    /\ Len(ops) > 0
    /\ ops[1] = "process_inputs"
    /\ ~AtEnd
    /\ app' = next_line(app)
    /\ inputs' = [inputs EXCEPT !.read = @ + 1]
    /\ called' = <<inputs.files[inputs.at].name, inputs.files[inputs.at].lines[inputs.read + 1]>>
    /\ ops' = <<"process_inputs", "process_input_line">>
    /\ UNCHANGED <<store_vars, argv, fs, loaded, assigned, stdout, environ,
                   result, outcome>>

NextInput == ProcessInputs \/ ProcessInput \/ ProcessInputLine

SpecInput == Init /\ [][NextInput]_vars

(***************************************************************************)
(* TextFormat (cliapp/fmt.py): a text is formatted to a width              *)
(***************************************************************************)
MaxText == 5

\* TextFormat(width).format(text)
TextFormat(width, text) == text

\* the texts of the tests, formatted to the width 10
TestWidth == 10
TestTexts ==
    { <<>>, <<"f","o","o"," ","b","a","r">>, <<"f","o","o","b","a","r"," ","w","o","r","d">>, <<"f","o","o"," ","b","a","r","\n">>, <<"f","o","o","b","a","r"," ","w","o","r","d","\n">>, <<"f","o","o","\n","b","a","r","\n","\n","y","o","\n","y","o","\n">> }
\* short texts of words, spaces and newlines, formatted to small widths
Widths == {1, 2, 3}
ShortTexts == SeqsUpTo({"a", " ", "\n"}, MaxText)

\* fmt.format(text)
Format ==
    /\ ops = <<>>
    /\ \E width \in Widths \cup {TestWidth} :
       \E text \in IF width = TestWidth THEN TestTexts ELSE ShortTexts :
          /\ called' = <<width, text>>
          /\ result' = PStr(TextFormat(width, text))
    /\ ops' = <<"format">>
    /\ UNCHANGED <<store_vars, argv, fs, loaded, assigned, stdout, environ, app, inputs,
                   outcome>>

NextFormat == Format

SpecFormat == Init /\ [][NextFormat]_vars

(***************************************************************************)
(* The passes of parse_args over one command line: for the config files    *)
(* only and then, after load_configs, in full, as _run does, or in full    *)
(* from the start; and then in full once more                              *)
(***************************************************************************)
MaxPassArgs == 3
MaxPasses == 3

f_y_conf == <<"y",".","c","o","n","f">>

PassOptions ==
    { Arg(o_config, f_x_conf),
      Arg(o_config, f_y_conf),
      Flag(o_no_default_configs),
      Flag(o_list_config_files),
      Arg(option_name(n_pattern), v_x) }
PassArgs == SeqsUpTo(PassOptions, MaxPassArgs)

IniPattern == Ini(<< <<n_pattern, <<"q">> >> >>)
IniOutput == Ini(<< <<n_output, <<"b">> >> >>)
PassFileSystems ==
    { [path \in {f_x_conf, f_y_conf} |-> IF path = f_x_conf THEN IniPattern ELSE IniOutput],
      [path \in {f_x_conf, f_y_conf, f_etc_conf} |->
          IF path = f_y_conf THEN IniOutput ELSE IniPattern],
      [path \in {f_y_conf} |-> IniOutput] }

\* settings.parse_args(args, configs_only=...) on a new store
FirstPass ==
    /\ ops = <<>>
    /\ \E args \in PassArgs, configs_only \in BOOLEAN :
          /\ Parsed(parse_args(Store, Env, args, configs_only, FALSE))
          /\ argv' = args
          /\ ops' = <<IF configs_only THEN "parse_args(configs_only)" ELSE "parse_args">>
    /\ UNCHANGED <<fs, loaded, assigned, environ, result, called, app, inputs>>

\* settings.load_configs() after the pass for the config files
LoadBetween ==
    /\ ops = <<"parse_args(configs_only)">>
    /\ Running
    /\ \E f \in PassFileSystems :
          /\ Loaded(load_configs(Store, Env, f))
          /\ fs' = f
    /\ loaded' = get_config_files(Store, Env)
    /\ ops' = Append(ops, "load_configs")
    /\ UNCHANGED <<argv, assigned, stdout, environ, result, called, app, inputs>>

\* settings.parse_args(args) with the same args
PassAgain ==
    /\ ops # <<>>
    /\ Len(ops) <= MaxPasses
    /\ ops[Len(ops)] # "parse_args(configs_only)"
    /\ Running
    /\ Parsed(parse_args(Store, Env, argv, FALSE, FALSE))
    /\ ops' = Append(ops, "parse_args")
    /\ UNCHANGED <<argv, fs, loaded, assigned, environ, result, called, app, inputs>>

NextPasses == FirstPass \/ LoadBetween \/ PassAgain

SpecPasses == Init /\ [][NextPasses]_vars

(***************************************************************************)
(* The Integer setting log-keep, given a value in each of the three ways:  *)
(* assigned by the application, read from a config file, named on the      *)
(* command line; then read                                                 *)
(***************************************************************************)
\* raw strings: decimal integers, and strings int() does not take
IntegerStrings ==
    { <<"5">>, <<"-","3">>, <<" ","7">>, <<"+","4">>, <<"1","2">>, <<"7"," ">>,
      <<"x">>, <<>>, <<"1",".","5">>, <<"1","2","k">>, <<"1","e","3">>,
      <<"1"," ","2">>, <<"-","-","1">>, <<"t","e","n">>, <<"-">> }

\* the values an application assigns
IntegerValues ==
    {PStr(raw) : raw \in IntegerStrings}
    \cup {PInt(5), PInt(0 - 3), PBool(TRUE), PNone}

IniInteger(raw) == Ini(<< <<n_log_keep, raw>> >>)
YamlInteger(value) == Yaml(PDict(<< <<s_config, PDict(<< <<n_log_keep, value>> >>)>> >>))

\* settings['log-keep'] = value
AssignInteger ==
    /\ ops = <<>>
    /\ \E value \in IntegerValues :
          /\ assigned' = <<n_log_keep, value>>
          /\ SetStore(setitem(Store, n_log_keep, value))
    /\ outcome' = Returned
    /\ ops' = <<"setitem">>
    /\ UNCHANGED <<argv, fs, loaded, stdout, environ, result, called, app, inputs>>

\* settings.load_configs() with /etc/p.conf or /etc/p.yaml setting log-keep
LoadInteger ==
    /\ ops = <<>>
    /\ \E f \in {Holding(IniInteger(raw), Missing, Missing, Missing) : raw \in IntegerStrings}
                \cup {Holding(Missing, YamlInteger(value), Missing, Missing) :
                        value \in IntegerValues} :
          /\ Loaded(load_configs(Store, Env, f))
          /\ fs' = f
    /\ loaded' = get_config_files(Store, Env)
    /\ ops' = <<"load_configs">>
    /\ UNCHANGED <<argv, assigned, stdout, environ, result, called, app, inputs>>

\* settings.parse_args(['--log-keep', raw], suppress_errors=True)
ParseInteger ==
    /\ ops = <<>>
    /\ \E raw \in IntegerStrings :
          /\ Parsed(parse_args(Store, Env, <<Arg(option_name(n_log_keep), raw)>>, FALSE, TRUE))
          /\ argv' = <<Arg(option_name(n_log_keep), raw)>>
    /\ ops' = <<"parse_args">>
    /\ UNCHANGED <<fs, loaded, assigned, environ, result, called, app, inputs>>

\* settings['log-keep'], after a call that returned
ReadInteger ==
    /\ Len(ops) = 1
    /\ Running
    /\ result' = getitem(Store, n_log_keep)
    /\ ops' = Append(ops, "getitem")
    /\ UNCHANGED <<store_vars, argv, fs, loaded, assigned, outcome, stdout, environ, called, app, inputs>>

\* settings.build_parser(), after a call that returned
BuildParser ==
    /\ Len(ops) = 1
    /\ Running
    /\ outcome' = [Returned EXCEPT !.raised = build_parser(Store).error]
    /\ ops' = Append(ops, "build_parser")
    /\ UNCHANGED <<store_vars, argv, fs, loaded, assigned, stdout, environ, result, called, app, inputs>>

NextInteger == AssignInteger \/ LoadInteger \/ ParseInteger \/ ReadInteger \/ BuildParser

SpecInteger == Init /\ [][NextInteger]_vars

(***************************************************************************)
(* What a command line and the config files say about a setting, read off  *)
(* argv, fs and loaded; k is the index of the setting's object             *)
(***************************************************************************)
Lifecycle == <<"parse_args(configs_only)", "load_configs", "parse_args">>

\* the option strings that name setting k, and those that negate it
NamesOf(k) == SeqToSet(option_names(objs[k].names))
NegationsOf(k) ==
    IF objs[k].cls = "Boolean"
    THEN {s_dashdash \o s_no_ \o n : n \in {m \in SeqToSet(objs[k].names) : Len(m) > 1}}
    ELSE {}

\* the occurrences in args of the options of setting k, in order
Occurrences(args, k) == SelectSeq(args, LAMBDA a : a.opt \in NamesOf(k) \cup NegationsOf(k))

\* the value args gives setting k: every value for a string list, the last
\* occurrence for the others
CliValue(args, k) ==
    LET occ  == Occurrences(args, k)
        last == occ[Len(occ)]
    IN  CASE objs[k].cls = "StringList" -> PList([i \in 1..Len(occ) |-> occ[i].val.v])
          [] objs[k].cls = "Boolean"    -> PBool(last.opt \in NamesOf(k))
          [] objs[k].cls = "Integer"    -> int(last.val)
          [] objs[k].cls = "ByteSize"   -> parse_human_size(last.val.v)
          [] OTHER                      -> last.val

\* the items of the config section of a file's content
ConfigItems(path) ==
    IF endswith(path, s_dotyaml)
    THEN IF fs[path].obj.t = "dict" THEN ItemsOrNone(DictGet(fs[path].obj, s_config)) ELSE <<>>
    ELSE PStrItems(fs[path].config)

\* the items of a file that set setting k
ItemsFor(path, k) == SelectSeq(ConfigItems(path), LAMBDA it : it[1] \in SeqToSet(objs[k].names))

\* the files of the list load_configs went through that exist and set k
Setters(k) == SelectSeq(loaded, LAMBDA path : path \in DOMAIN fs /\ ItemsFor(path, k) # <<>>)

\* the value a file gives setting k: the raw string of an ini file parsed
\* by the setting's class, the value of a YAML file assigned
FileValue(path, k) ==
    LET items == ItemsFor(path, k)
        v     == items[Len(items)][2]
    IN  IF endswith(path, s_dotyaml) THEN get_value(set_value(objs[k], v))
        ELSE get_value(parse_value(objs[k], v.v))

\* the value setting k was declared with
DeclaredDefault(k) == get_value(FreshStore(objs[settingses[n_pattern]].default).objs[k])

Precedence(k) ==
    IF Occurrences(argv, k) # <<>> THEN CliValue(argv, k)
    ELSE IF Setters(k) # <<>> THEN FileValue(Setters(k)[Len(Setters(k))], k)
    ELSE DeclaredDefault(k)

\* C1: after parse_args(args, configs_only=True), load_configs() and
\* parse_args(args) on a freshly declared store, each setting has the value
\* args gives it (for a Boolean true for --name, false for --no-name), else
\* the value of the last config file of the list that sets it, else its
\* declared default.
C1_Precedence ==
    (ops = Lifecycle /\ Running) =>
        \A k \in 1..Len(objs) : get_value(objs[k]) = Precedence(k)

\* a run where the command line negates the Boolean a config file set true,
\* where a file's string list is replaced by the command line's, and where
\* log-keep comes from a file
C1_Witness ==
    /\ ops = Lifecycle /\ Running
    /\ f_etc_conf \in DOMAIN fs /\ fs[f_etc_conf] = IniAll /\ f_etc_conf \in SeqToSet(loaded)
    /\ argv = <<Flag(s_dashdash \o s_no_ \o n_verbose), Arg(option_name(n_e), v_y)>>
    /\ getitem(Store, n_verbose) = PBool(FALSE)
    /\ getitem(Store, n_pattern) = PList(<<v_y>>)
    /\ getitem(Store, n_log_keep) \in {PInt(7), PInt(8), PInt(9)}
    /\ getitem(Store, n_log) = PStr(s_empty)

\* C2: parse_args(args, configs_only=True) that returns leaves every
\* setting object, the alias table and the canonical names as they were;
\* only the config file list and the required files can change.
C2_ConfigsOnlyFrame ==
    [][(ops' = <<"parse_args(configs_only)">> /\ outcome' = Returned) =>
          /\ objs' = objs
          /\ settingses' = settingses
          /\ canonical_names' = canonical_names
          /\ all_config_data' = all_config_data]_vars

\* a configs-only pass over a command line that gives a string list a value
\* and names a config file: the list is still the default, the file listed
C2_Witness ==
    /\ ops = <<"parse_args(configs_only)">> /\ Running
    /\ argv = <<Arg(option_name(n_pattern), v_x), Arg(o_config, f_x_conf)>>
    /\ getitem(Store, n_pattern) = PList(objs[settingses[n_pattern]].default)
    /\ required_config_files = <<f_x_conf>>
    /\ config_files = PList(Append(default_config_files(Env), f_x_conf))

\* C3: after load_configs, a setting that two or more files of the list
\* set has the value of the last of them; a string list has the last
\* file's list, not the lists of the files appended.
C3_LastFileWins ==
    (ops = <<"parse_args(configs_only)", "load_configs">> /\ Running) =>
        \A k \in 1..Len(objs) :
            Len(Setters(k)) >= 2 =>
                get_value(objs[k]) = FileValue(Setters(k)[Len(Setters(k))], k)

\* three files set the string list, an ini file, a YAML file and an ini
\* file: the value is the last one's
C3_Witness ==
    /\ ops = <<"parse_args(configs_only)", "load_configs">> /\ Running
    /\ Len(Setters(settingses[n_pattern])) = 3
    /\ getitem(Store, n_pattern) = PList(<< <<"r",",","s">> >>)
    /\ getitem(Store, n_log_max) = PInt(4096)

\* C4: after one parse_args on a freshly declared store that returns, a
\* string list has the values its option was given, in the order of the
\* command line, when there is one at least, and its declared default D
\* (the empty list when none was declared) when there is none.
C4_StringListFromCli ==
    (ops \in {<<"parse_args">>, <<"parse_args(suppress_errors)">>} /\ Running) =>
        LET k == settingses[n_pattern] IN
        get_value(objs[k]) = IF Occurrences(argv, k) # <<>> THEN CliValue(argv, k)
                             ELSE PList(objs[k].default)

\* the default ["d"] is discarded for the two values of the command line
C4_Witness ==
    /\ ops = <<"parse_args">> /\ Running
    /\ objs[settingses[n_pattern]].default = << <<"d">> >>
    /\ argv = <<Arg(option_name(n_pattern), v_x), Arg(option_name(n_e), v_y)>>
    /\ getitem(Store, n_pattern) = PList(<<v_x, v_y>>)

\* C5: a string list assigned a list P by settings[name] = P and then
\* given values v1..vn, n >= 1, by parse_args has the value [v1..vn].
C5_AssignedListReplaced ==
    (/\ ops \in {<<"setitem", "parse_args">>, <<"setitem", "parse_args(suppress_errors)">>}
     /\ Running
     /\ assigned[1] \in SeqToSet(objs[settingses[n_pattern]].names)
     /\ Occurrences(argv, settingses[n_pattern]) # <<>>) =>
        getitem(Store, n_pattern) = CliValue(argv, settingses[n_pattern])

\* the keys of the config section of a file that are no alias of a setting
UnknownKeys(path) == SelectSeq(ConfigItems(path), LAMBDA it : it[1] \notin DOMAIN settingses)

\* the files the command line names with --config, those before a
\* --no-default-configs forgotten
NamedWithConfig(args) ==
    LET resets == {i \in 1..Len(args) : args[i].opt = o_no_default_configs}
    IN  {args[i].val.v : i \in {j \in 1..Len(args) :
                                  /\ args[j].opt = o_config
                                  /\ \A r \in resets : r < j}}

\* a file load_configs cannot get past
Fails(path) ==
    IF path \in DOMAIN fs
    THEN IF endswith(path, s_dotyaml)
         THEN \/ fs[path].obj.t # "dict"
              \/ ~DictHas(fs[path].obj, s_config)
              \/ UnknownKeys(path) # <<>>
         ELSE UnknownKeys(path) # <<>>
    ELSE path \in NamedWithConfig(argv)

AfterLoad == Len(ops) = 2 /\ ops[2] = "load_configs"

\* C6: load_configs fails with UnknownConfigVariable, naming the file and
\* the key, when the config section of a file it reads, ini or YAML, has a
\* key that is no alias of a setting: it is the outcome for the first file
\* of the list that has one when no file before it fails, the exception
\* never names anything else, and load_configs never returns having read
\* such a file.
C6_UnknownKeyFails ==
    AfterLoad =>
        /\ \A i \in 1..Len(loaded) :
              (/\ loaded[i] \in DOMAIN fs
               /\ UnknownKeys(loaded[i]) # <<>>
               /\ \A j \in 1..(i-1) : ~Fails(loaded[j])) =>
                  outcome = [Returned EXCEPT !.raised = "UnknownConfigVariable",
                                             !.file = loaded[i],
                                             !.key = UnknownKeys(loaded[i])[1][1]]
        /\ outcome.raised = "UnknownConfigVariable" =>
              /\ outcome.file \in SeqToSet(loaded) \cap DOMAIN fs
              /\ \E i \in 1..Len(UnknownKeys(outcome.file)) :
                    UnknownKeys(outcome.file)[i][1] = outcome.key
        /\ Running =>
              \A i \in 1..Len(loaded) :
                  loaded[i] \in DOMAIN fs => UnknownKeys(loaded[i]) = <<>>

\* the YAML file of the home directory has the key nosuch, the ini file
\* before it in the list exists and has known keys only
C6_Witness ==
    /\ AfterLoad
    /\ f_etc_conf \in DOMAIN fs /\ fs[f_etc_conf] = IniAll
    /\ f_home_yaml \in DOMAIN fs /\ fs[f_home_yaml] = YamlUnknown
    /\ loaded = default_config_files(Env)
    /\ outcome = [Returned EXCEPT !.raised = "UnknownConfigVariable",
                                  !.file = f_home_yaml, !.key = n_nosuch]

C8_ChoiceInChoices ==
    \A k \in 1..Len(objs) :
        objs[k].cls = "Choice" =>
            get_value(objs[k]).t = "str" /\ Occurs(objs[k].choices, get_value(objs[k]).v)

\* the occurrences of --log-level=bogus on a command line
Bogus(args) == {i \in 1..Len(args) : args[i] = Arg(option_name(n_log_level), c_bogus)}
FirstBogus(args) == CHOOSE i \in Bogus(args) : \A j \in Bogus(args) : i <= j

SuppressedParse(o) == o[Len(o)] = "parse_args(suppress_errors)"

\* C9 as stated: parse_args with suppress_errors=True and an option value
\* that is not one of a Choice setting's choices exits with a non-zero
\* status and leaves the setting at the value it had before the call.
C9_AsStated ==
    [][(/\ ops' # ops
        /\ SuppressedParse(ops')
        /\ Bogus(argv') # {}) =>
           /\ outcome'.exit.t = "int" /\ outcome'.exit.v # 0
           /\ getitem(Store, n_log_level)' = getitem(Store, n_log_level)]_vars

\* C9: parse_args with suppress_errors=True that gets to an option value
\* that is not one of a Choice setting's choices (the parser was built and
\* no --help comes before the value) exits with status 1, and the setting
\* has the value the last occurrence of its option before it gave it, or
\* the value it had before the call when there is none.
C9_SuppressedChoiceError ==
    [][(/\ ops' # ops
        /\ SuppressedParse(ops')
        /\ Bogus(argv') # {}
        /\ outcome'.raised = ""
        /\ \A j \in 1..(FirstBogus(argv') - 1) : argv'[j].opt # o_help) =>
           /\ outcome'.exit = PInt(1)
           /\ LET before == SubSeq(argv', 1, FirstBogus(argv') - 1)
                  k      == settingses[n_log_level]
              IN  getitem(Store, n_log_level)' =
                      IF Occurrences(before, k) # <<>> THEN CliValue(before, k)
                      ELSE getitem(Store, n_log_level)]_vars

\* log-level was assigned error; the command line gives it info, then
\* bogus: the exit status is 1 and the value info
C9_Witness ==
    /\ ops = <<"setitem", "parse_args(suppress_errors)">>
    /\ assigned = <<n_log_level, PStr(c_error)>>
    /\ argv = <<Arg(option_name(n_log_level), c_info), Arg(option_name(n_log_level), c_bogus)>>
    /\ outcome = [Returned EXCEPT !.exit = PInt(1)]
    /\ getitem(Store, n_log_level) = PStr(c_info)

\* the setting registered last has a name that was an alias before
Collides ==
    \E i \in 1..Len(objs[Len(objs)].names) :
        \E k \in 1..(Len(objs) - 1) :
            objs[Len(objs)].names[i] \in SeqToSet(objs[k].names)

\* C10: registering a setting with a name that is an alias of an earlier
\* setting fails, and every canonical name of keys() resolves to the
\* setting whose first name it is.
C10_AliasesUnique ==
    /\ (ops = <<"add_setting">> /\ Collides) => outcome.raised # ""
    /\ \A i \in 1..Len(keys(Store)) :
          Obj(Store, keys(Store)[i]).names[1] = keys(Store)[i]

\* the option of the parser with the option string, or none
HasOption(p, opt) == \E i \in 1..Len(p.options) : opt \in SeqToSet(p.options[i].strings)
OptionOf(p, opt) == p.options[FindOption(p.options, opt)]

\* C11: for every Boolean setting the parser has an option --no-N, which
\* sets the setting false, for each long name N except where no-N is a
\* declared name; where names collide, be it all of them, or where the
\* setting has one-character names only, the option is left out, the
\* parser is built and the command line parsed.
C11_NegationOptions ==
    (Len(ops) = 2 /\ ops[1] = "add_settings") =>
        /\ outcome.raised = ""
        /\ build_parser(Store).error = ""
        /\ \A k \in 1..Len(objs) :
              objs[k].cls = "Boolean" /\ settingses[objs[k].names[1]] = k =>
                 \A i \in 1..Len(objs[k].names) :
                    LET N   == objs[k].names[i]
                        neg == s_dashdash \o s_no_ \o N
                    IN  Len(N) > 1 =>
                          IF s_no_ \o N \in DOMAIN settingses
                          THEN HasOption(build_parser(Store), neg) =>
                                  OptionOf(build_parser(Store), neg).callback # "set_false"
                          ELSE /\ HasOption(build_parser(Store), neg)
                               /\ OptionOf(build_parser(Store), neg).callback = "set_false"
                               /\ OptionOf(build_parser(Store), neg).setting = k

\* the state after settings[name] = value, for the setting name
Assigned(name) == ops = <<"setitem">> /\ assigned[1] = name

\* C12: a Boolean setting assigned a string reads back true exactly when
\* the string in lower case is one of yes, on, 1, true; assigned another
\* value it reads back the truth value of that value.
C12_BooleanReadsBack ==
    Assigned(n_verbose) =>
        getitem(Store, n_verbose) =
            PBool(IF assigned[2].t = "str"
                  THEN lower(assigned[2].v) \in {s_yes, s_on, s_1, s_true}
                  ELSE Truthy(assigned[2]))

C12_Witness ==
    /\ Assigned(n_verbose)
    /\ assigned[2] = PStr(<<"Y","E","S">>)
    /\ getitem(Store, n_verbose) = PBool(TRUE)

\* the length of the number a string starts with: digits, and a point and
\* digits where they follow
NumberLen(s) ==
    LET n == DigitPrefixLen(s)
        f == IF n > 0 /\ Len(s) >= n + 2 /\ s[n + 1] = "."
             THEN DigitPrefixLen(SubSeq(s, n + 2, Len(s))) ELSE 0
    IN  IF f > 0 THEN n + 1 + f ELSE n

\* a string of the form <n><unit> with an optional b, in any case
Suffixes == {u \o b : u \in SeqToSet(UnitNames) \cup {<<>>}, b \in {<<>>, <<"b">>}}
SizeForm(s) ==
    /\ NumberLen(lower(s)) > 0
    /\ SubSeq(lower(s), NumberLen(lower(s)) + 1, Len(s)) \in Suffixes

\* the whole bytes of n * 1000^i, n * 1024^i or n, for a string of the form
Bytes(s) ==
    LET l    == lower(s)
        n    == DigitPrefixLen(l)
        k    == NumberLen(l)
        frac == IF k > n THEN SubSeq(l, n + 2, k) ELSE <<>>
        rest == SubSeq(l, k + 1, Len(l))
        unit == IF rest # <<>> /\ rest[Len(rest)] = "b"
                THEN SubSeq(rest, 1, Len(rest) - 1) ELSE rest
        mult == IF unit = <<>> THEN <<1>>
                ELSE Power(UnitBase(IndexOf(UnitNames, unit)),
                           UnitExp(IndexOf(UnitNames, unit)))
    IN  PyInt(Div(Mul(FromDigits(SubSeq(l, 1, n) \o frac), mult), Power(10, Len(frac))))

NoSpaces(s) == Filter(s, {c \in SeqToSet(s) : ~IsSpace(c)})

\* C13: a ByteSize setting assigned a string <n><unit> with an optional b,
\* in any case, reads back n * 1000^i for k, m, g, t, n * 1024^i for ki,
\* mi, gi, ti, n for no unit; assigned a string that is not of that form
\* (nor of that form with white space in it) it reads back 0.
C13_ByteSizeDecoding ==
    Assigned(n_log_max) /\ assigned[2].t = "str" =>
        /\ SizeForm(assigned[2].v) => getitem(Store, n_log_max) = Bytes(assigned[2].v)
        /\ ~SizeForm(NoSpaces(assigned[2].v)) => getitem(Store, n_log_max) = PInt(0)

\* C14: a size with white space before it, after it, or both reads back
\* the same number as the size without that white space.
C14_SurroundingWhitespace ==
    Assigned(n_log_max) /\ assigned[2].t = "str" /\ SizeForm(strip(assigned[2].v)) =>
        getitem(Store, n_log_max) = parse_human_size(strip(assigned[2].v))

\* the state after settings[name] = value and the reload of the dumped
\* configuration, for the setting name
Reloaded(name) == ops = <<"setitem", "reload">> /\ assigned[1] = name

\* C15: a ByteSize setting set to an integer n >= 0, formatted, and given
\* the formatted string to parse, reads back n.
C15_ByteSizeRoundTrip ==
    Reloaded(n_log_max) /\ assigned[2].t \in {"int", "long"} =>
        getitem(Store, n_log_max) = assigned[2]

\* the state after settings[name] = value and settings.require(name)
Required == ops = <<"setitem", "require">>

\* C16, as stated: has_value is false exactly when the value is the empty
\* string (String) or the empty list (StringList), so require raises
\* AppException for a String setting holding the empty string.
C16_AsStated ==
    Required /\ assigned[1] \in {n_output, n_pattern} =>
        /\ has_value(Obj(Store, assigned[1])) =
              (getitem(Store, assigned[1]) \notin {PStr(<<>>), PList(<<>>)})
        /\ (result = Raise("AppException")) =
              (getitem(Store, assigned[1]) \in {PStr(<<>>), PList(<<>>)})

\* C16: has_value is false exactly when the value is None (every class but
\* StringList) or the empty list (StringList), and require raises
\* AppException exactly then: not for a String setting holding the empty
\* string.
C16_HasValue ==
    Required =>
        /\ has_value(Obj(Store, assigned[1])) =
              (getitem(Store, assigned[1]) \notin {PNone, PList(<<>>)})
        /\ result = IF getitem(Store, assigned[1]) \in {PNone, PList(<<>>)}
                    THEN Raise("AppException") ELSE PNone

C16_Witness ==
    /\ Required
    /\ assigned = <<n_output, PStr(<<>>)>>
    /\ getitem(Store, n_output) = PStr(<<>>)
    /\ has_value(Obj(Store, n_output))
    /\ result = PNone

\* the store before the command line was parsed, and the command line
\* without the options whose action is deferred
Fresh == FreshStore(Obj(Store, n_pattern).default)
Undeferred == Filter(argv, {a \in SeqToSet(argv) : a.opt \notin DeferredOptions})
HasDeferred == \E i \in 1..Len(argv) : argv[i].opt \in DeferredOptions
FirstDeferredOption ==
    argv[CHOOSE i \in 1..Len(argv) :
            argv[i].opt \in DeferredOptions
            /\ \A j \in 1..(i - 1) : argv[j].opt \notin DeferredOptions].opt
Writes(o) ==
    CASE o = o_dump_config        -> write(as_cp(Store))
      [] o = o_dump_setting_names -> keys(Store)
      [] o = o_list_config_files  -> get_config_files(Store, Env)
      [] OTHER                    -> <<>>

\* C17: in a parse_args in full, the action of --dump-config,
\* --dump-setting-names, --list-config-files or --help-all runs after every
\* option of the command line was applied: where the other options parse
\* without an error or an exit, the store ends as they leave it, what is
\* written is written from that store (the dumped configuration has the
\* values of the options after --dump-config), and the process ends with
\* status 0; parsed for the config files only, the same command line
\* writes nothing and ends as it does without these options.
C17_DeferredActions ==
    /\ ops = <<"parse_args">> /\ HasDeferred
       /\ parse_args(Fresh, Env, Undeferred, FALSE, FALSE).exit = PNone
       => /\ Store = parse_args(Fresh, Env, Undeferred, FALSE, FALSE).st
          /\ stdout.lines = Writes(FirstDeferredOption)
          /\ outcome.exit = PInt(0)
    /\ ops = <<"parse_args(configs_only)">> /\ HasDeferred
       => /\ Store = parse_args(Fresh, Env, Undeferred, TRUE, FALSE).st
          /\ stdout = NoOut
          /\ outcome.exit = parse_args(Fresh, Env, Undeferred, TRUE, FALSE).exit

s_output_a == <<"o","u","t","p","u","t"," ","="," ","a">>

C17_Witness ==
    /\ ops = <<"parse_args">>
    /\ argv = <<Flag(o_dump_config), Arg(option_name(n_output), v_a)>>
    /\ outcome.exit = PInt(0)
    /\ s_output_a \in SeqToSet(stdout.lines)

\* C18: for every setting of every class and every value it holds, the
\* string format() produces, given to parse_value(), leaves get_value()
\* as it was: loading the [config] section as_cp exports restores the
\* values of all settings.
C18_FormatParseRoundTrip ==
    [][ops' = <<"setitem", "reload">> =>
          \A i \in 1..Len(keys(Store)) :
              getitem(Store', keys(Store)[i]) = getitem(Store, keys(Store)[i])]_vars

\* C19: settings[name] and settings[name] = v raise KeyError for a name
\* that is no alias of a declared setting, and the assignment changes no
\* setting and adds none.
C19_UnknownName ==
    ops = <<"setitem">> /\ assigned[1] \notin DOMAIN Fresh.settingses =>
        /\ outcome.raised = "KeyError"
        /\ getitem(Store, assigned[1]) = Raise("KeyError")
        /\ Store = Fresh
        /\ keys(Store) = keys(Fresh)
        /\ DOMAIN settingses = DOMAIN Fresh.settingses

C19_Witness ==
    /\ ops = <<"setitem">>
    /\ assigned = <<n_nosuch, PStr(v_a)>>
    /\ outcome.raised = "KeyError"
    /\ n_nosuch \notin DOMAIN settingses

\* a config file of a user directory, of a system directory
StartsWith(s, prefix) == Len(s) >= Len(prefix) /\ SubSeq(s, 1, Len(prefix)) = prefix
UserFile(path)   == StartsWith(path, environ.home \o s_slash)
SystemFile(path) == StartsWith(path, s_etc)

\* C20: in default_config_files every config file of a user directory
\* (under the home directory) is listed after every config file of a
\* system directory (under /etc), and no path is listed twice.
C20_UserAfterSystem ==
    ops = <<"default_config_files">> =>
        /\ \A i, j \in 1..Len(result.v) :
              UserFile(result.v[i]) /\ SystemFile(result.v[j]) => j < i
        /\ \A i, j \in 1..Len(result.v) : result.v[i] = result.v[j] => i = j

\* the code point of a character of a file name
CodePoint(c) ==
    IF c \in SeqToSet(DigitChars) THEN 47 + IndexOf(DigitChars, c)
    ELSE IF c \in SeqToSet(UpperChars) THEN 64 + IndexOf(UpperChars, c)
    ELSE IF c \in SeqToSet(LowerChars) THEN 96 + IndexOf(LowerChars, c)
    ELSE CASE c = " " -> 32 [] c = "-" -> 45 [] c = "." -> 46 [] c = "/" -> 47
           [] c = "_" -> 95 [] c = "~" -> 126

\* the name a comes before the name b in the order of their code points
CodePointsBefore(a, b) ==
    \E k \in 1..Len(b) :
        /\ k <= Len(a) + 1
        /\ \A i \in 1..(k - 1) : a[i] = b[i]
        /\ k = Len(a) + 1 \/ CodePoint(a[k]) < CodePoint(b[k])
ConfigName(x) ==
    /\ Len(x) >= 5
    /\ SubSeq(x, Len(x) - 4, Len(x)) \in { <<".","c","o","n","f">>, <<".","y","a","m","l">> }
InDir(dirname, x) == dirname \o <<"/">> \o x

\* C21: listconfs(dirname) returns exactly the entries of the directory
\* whose names end in .conf or .yaml, each joined to dirname, in the order
\* of the code points of the names, and the empty list when dirname is not
\* a directory that exists
C21_ListConfs ==
    ops = <<"listconfs">> =>
        LET dirname == called[1]
            dirs    == environ.dirs
            r       == result.v
        IN  IF dirname \notin DOMAIN dirs THEN r = <<>>
            ELSE LET wanted == { x \in SeqToSet(dirs[dirname]) : ConfigName(x) }
                 IN  /\ Len(r) = Cardinality(wanted)
                     /\ SeqToSet(r) = { InDir(dirname, x) : x \in wanted }
                     /\ \A i \in 1..Len(r) : \A j \in (i + 1)..Len(r) :
                           CodePointsBefore(SubSeq(r[i], Len(dirname) + 2, Len(r[i])),
                                            SubSeq(r[j], Len(dirname) + 2, Len(r[j])))

\* the directory lists a.conf, readme, B.conf: B.conf comes first, readme is
\* left out
C21_Witness ==
    /\ ops = <<"listconfs">>
    /\ called = <<d_etc_p>>
    /\ d_etc_p \in DOMAIN environ.dirs
    /\ environ.dirs[d_etc_p] = <<b_a_conf, b_readme, b_B_conf>>
    /\ result = PList(<<InDir(d_etc_p, b_B_conf), InDir(d_etc_p, b_a_conf)>>)

\* a yaml file that is no mapping or has no config key
Malformed(path) ==
    /\ path \in DOMAIN fs
    /\ Len(path) >= 5 /\ SubSeq(path, Len(path) - 4, Len(path)) = <<".","y","a","m","l">>
    /\ \/ fs[path].obj.t # "dict"
       \/ \A i \in 1..Len(fs[path].obj.v) : fs[path].obj.v[i][1] # <<"c","o","n","f","i","g">>
\* the position in the list of loaded files of the first such file, or 0
FirstMalformed ==
    IF \E i \in 1..Len(loaded) : Malformed(loaded[i])
    THEN CHOOSE i \in 1..Len(loaded) :
            Malformed(loaded[i]) /\ \A j \in 1..(i - 1) : ~Malformed(loaded[j])
    ELSE 0

\* C22: loading a yaml config file whose content is not a mapping, or is a
\* mapping without a config key, fails with a MalformedYamlConfig error that
\* names the file, and the settings are as the files before it left them
C22_MalformedYaml ==
    [][ (ops' # ops /\ FirstMalformed' > 0) =>
          /\ outcome'.raised = "MalformedYamlConfig"
          /\ outcome'.file = loaded'[FirstMalformed']
          /\ objs' = load_from(Store, fs', SubSeq(loaded', 1, FirstMalformed' - 1)).st.objs
      ]_vars

Exits(code) == result.ends = "SystemExit" /\ result.code = code
ErrorLine(text) == result.stderr = [form |-> "ERROR: %s\n", text |-> text]

RECURSIVE LinesBefore(_)
\* the number of lines of the input files before the k-th
LinesBefore(k) == IF k <= 1 THEN 0 ELSE LinesBefore(k - 1) + Len(inputs.files[k - 1].lines)

\* C24: at every call of process_input_line, fileno is the index of the
\* current file among the inputs (the only input being - when no file is
\* named), lineno the index of the line in that file, and global_lineno
\* the number of lines of the earlier files plus lineno
C24_Counters ==
    (Len(ops) = 2 /\ ops[2] = "process_input_line") =>
        \E k \in 1..Len(inputs.files) : \E n \in 1..Len(inputs.files[k].lines) :
            /\ called = <<inputs.files[k].name, inputs.files[k].lines[n]>>
            /\ inputs.at = k /\ inputs.read = n
            /\ app.fileno = k
            /\ app.lineno = n
            /\ app.global_lineno = LinesBefore(k) + n

\* the second line of the third file, after a first file of two lines and
\* an empty second file
C24_Witness ==
    /\ Len(ops) = 2 /\ ops[2] = "process_input_line"
    /\ Len(inputs.files) = 3
    /\ Len(inputs.files[1].lines) = 2
    /\ inputs.files[2].lines = <<>>
    /\ app = [fileno |-> 3, global_lineno |-> 4, lineno |-> 2]

RECURSIVE SplitAt(_, _, _)
\* the pieces of text between the characters of seps, the piece begun
\* being piece
SplitAt(text, seps, piece) ==
    IF text = <<>> THEN <<piece>>
    ELSE IF Head(text) \in seps THEN <<piece>> \o SplitAt(Tail(text), seps, <<>>)
    ELSE SplitAt(Tail(text), seps, Append(piece, Head(text)))
LinesOf(text) == SplitAt(text, {"\n"}, <<>>)
NonEmpty(pieces) == Filter(pieces, {x \in SeqToSet(pieces) : x # <<>>})
WordsOf(text) == NonEmpty(SplitAt(text, {" ", "\n"}, <<>>))
\* the paragraphs of a text as sequences of words
RECURSIVE Paragraphs(_, _)
Paragraphs(lines, para) ==
    IF lines = <<>> THEN IF para = <<>> THEN <<>> ELSE <<para>>
    ELSE IF WordsOf(Head(lines)) = <<>>
         THEN (IF para = <<>> THEN <<>> ELSE <<para>>) \o Paragraphs(Tail(lines), <<>>)
         ELSE Paragraphs(Tail(lines), para \o WordsOf(Head(lines)))
ParagraphsOf(text) == Paragraphs(LinesOf(text), <<>>)

\* out is text re-wrapped to width: the empty text is unchanged; the
\* paragraphs, their words and a final newline are kept; the words of a
\* line are separated by single spaces and, when every word fits in the
\* width, no line is longer than the width; and lines are joined: the
\* first word of a line would not have fitted at the end of the line
\* before it in the same paragraph
Rewrapped(width, text, out) ==
    LET lines == LinesOf(out)
    IN  /\ text = <<>> => out = <<>>
        /\ ParagraphsOf(out) = ParagraphsOf(text)
        /\ (text # <<>> /\ text[Len(text)] = "\n") => out[Len(out)] = "\n"
        /\ \A i \in 1..Len(lines) :
              LET words == WordsOf(lines[i])
              IN  /\ Len(words) > 1 => lines[i] = join(<<" ">>, words)
                  /\ (\A w \in SeqToSet(WordsOf(text)) : Len(w) <= width)
                        => Len(lines[i]) <= width
                  /\ (i > 1 /\ words # <<>> /\ lines[i - 1] # <<>>)
                        => Len(lines[i - 1]) + 1 + Len(words[1]) > width

\* C25: TextFormat(width).format(text) re-wraps each paragraph of text to
\* the width, keeps the blank lines between paragraphs and a final
\* newline, and returns the empty string unchanged
C25_Rewrapped ==
    ops = <<"format">> => Rewrapped(called[1], called[2], result.v)

\* the files of the list that exist, in the order of the list
Found == Filter(loaded, DOMAIN fs)
IsYaml(path) == SubSeq(path, Len(path) - 4, Len(path)) = <<".","y","a","m","l">>
\* the sections of a file other than config, as <<section, <<key, value>> pairs>>
SectionsIn(path) ==
    IF IsYaml(path)
    THEN { <<fs[path].obj.v[i][1], fs[path].obj.v[i][2].v>> :
             i \in {j \in 1..Len(fs[path].obj.v) : fs[path].obj.v[j][1] # s_config} }
    ELSE { <<fs[path].sections[i][1],
             [j \in 1..Len(fs[path].sections[i][2]) |->
                 <<fs[path].sections[i][2][j][1], PStr(fs[path].sections[i][2][j][2])>>]>> :
             i \in {j \in 1..Len(fs[path].sections) : fs[path].sections[j][1] # s_config} }
\* the files, by their index in Found, that set the key in the section
Setting(section, key) ==
    { i \in 1..Len(Found) :
        \E sec \in SectionsIn(Found[i]) :
            sec[1] = section /\ \E j \in 1..Len(sec[2]) : sec[2][j][1] = key }
LastOf(S) == CHOOSE i \in S : \A j \in S : j <= i
ValueIn(path, section, key) ==
    LET sec == CHOOSE x \in SectionsIn(path) :
                   x[1] = section /\ \E j \in 1..Len(x[2]) : x[2][j][1] = key
    IN  sec[2][CHOOSE j \in 1..Len(sec[2]) : sec[2][j][1] = key][2]
SectionNames == UNION { { sec[1] : sec \in SectionsIn(Found[i]) } : i \in 1..Len(Found) }
KeysOf(section) ==
    UNION { UNION { { sec[2][j][1] : j \in 1..Len(sec[2]) } :
                      sec \in { x \in SectionsIn(Found[i]) : x[1] = section } } :
            i \in 1..Len(Found) }

\* C26: after load_configs the extra config data holds the sections other
\* than config of the files loaded, each with the union of its keys over
\* the files and, for a key, the value of the last file of the list that
\* sets it; nothing of an earlier load_configs is left, the config section
\* is not in it, and as_cp has every such section, key and value
C26_ExtraData ==
    (ops # <<>> /\ outcome.raised = "") =>
        /\ DOMAIN all_config_data = SectionNames
        /\ s_config \notin DOMAIN all_config_data
        /\ \A section \in SectionNames :
              /\ DOMAIN all_config_data[section] = KeysOf(section)
              /\ \A key \in KeysOf(section) :
                    all_config_data[section][key] =
                        ValueIn(Found[LastOf(Setting(section, key))], section, key)
        /\ \A section \in DOMAIN all_config_data :
              /\ section \in DOMAIN as_cp(Store).sections
              /\ \A key \in DOMAIN all_config_data[section] :
                    /\ lower(key) \in DOMAIN as_cp(Store).sections[section]
                    /\ as_cp(Store).sections[section][lower(key)] =
                          all_config_data[section][key]

\* a second load_configs, of /etc/p.conf and /etc/p.yaml: extra has k of the
\* yaml file, m of the ini file and log, and there is no section other
C26_Witness ==
    /\ ops = <<"load_configs", "load_configs">>
    /\ outcome.raised = ""
    /\ fs = Holding(IniExtra, YamlExtra, Missing, Missing)
    /\ DOMAIN all_config_data = {n_extra}
    /\ all_config_data[n_extra] =
          [key \in {n_k, n_m, n_log} |->
              IF key = n_k THEN PStr(<<"5">>) ELSE IF key = n_m THEN PStr(<<"2">>)
              ELSE PStr(<<"6">>)]

\* the sequence of _run has been run to its end, or to the exit of
\* --list-config-files
AfterRun ==
    /\ ops = <<"parse_args(configs_only)", "load_configs", "parse_args">>
    /\ outcome.raised = ""
    /\ outcome.exit = PNone \/ stdout.what = "list_config_files"

\* C27: after parse_args(args, configs_only=True), load_configs() and
\* parse_args(args), the config file list, and what --list-config-files
\* prints, is the list of files load_configs iterated over
C27_ConfigFileList ==
    AfterRun =>
        /\ config_files = PList(loaded)
        /\ stdout.what = "list_config_files" => stdout.lines = loaded

\* a pass of parse_args has just been run to its end, or to the exit of
\* --list-config-files
AfterPass ==
    /\ ops # <<>>
    /\ ops[Len(ops)] \in {"parse_args(configs_only)", "parse_args"}
    /\ outcome.raised = ""
    /\ outcome.exit = PNone \/ stdout.what = "list_config_files"
Resets == { i \in 1..Len(argv) : argv[i].opt = <<"-","-","n","o","-","d","e","f","a","u","l","t","-","c","o","n","f","i","g","s">> }
LastReset == CHOOSE i \in Resets : \A j \in Resets : j <= i
\* the values of the --config options after the i-th argument
RECURSIVE ConfigsAfter(_)
ConfigsAfter(i) ==
    IF i >= Len(argv) THEN <<>>
    ELSE (IF argv[i + 1].opt = <<"-","-","c","o","n","f","i","g">> THEN <<argv[i + 1].val.v>> ELSE <<>>)
         \o ConfigsAfter(i + 1)

\* C28: after a pass of parse_args over a command line with
\* --no-default-configs, the config file list and the list of required
\* config files are the values of the --config options that follow the
\* last --no-default-configs, in their order
C28_NoDefaultConfigs ==
    (AfterPass /\ Resets # {}) =>
        /\ config_files = PList(ConfigsAfter(LastReset))
        /\ required_config_files = ConfigsAfter(LastReset)
        /\ stdout.what = "list_config_files" => stdout.lines = ConfigsAfter(LastReset)

\* --config=x.conf --no-default-configs --config=y.conf, parsed once: the
\* list is y.conf
C28_Witness ==
    /\ Len(ops) = 1
    /\ AfterPass
    /\ argv = <<Arg(o_config, f_x_conf), Flag(o_no_default_configs), Arg(o_config, f_y_conf)>>
    /\ config_files = PList(<<f_y_conf>>)
    /\ required_config_files = <<f_y_conf>>

\* C29: a second parse_args (not configs_only) with the same args leaves
\* every setting with the value it had after the first
C29_SecondParse ==
    [][ (/\ ops # <<>>
         /\ ops[Len(ops)] = "parse_args"
         /\ ops' = Append(ops, "parse_args")
         /\ outcome'.raised = "" /\ outcome'.exit = PNone) =>
            \A name \in DOMAIN settingses : getitem(Store, name)' = getitem(Store, name)
      ]_vars

\* the string the Integer setting log-keep holds
HeldString == Obj(Store, <<"l","o","g","-","k","e","e","p">>).string_value.v
\* an optionally signed run of decimal digits, white space around it allowed
Decimal(str_) ==
    \E i \in 1..Len(str_), j \in 1..Len(str_) :
        /\ i <= j
        /\ \A k \in 1..Len(str_) : k < i \/ k > j => str_[k] \in {" ", "\t", "\n"}
        /\ \A k \in (i+1)..j : str_[k] \in {"0","1","2","3","4","5","6","7","8","9"}
        /\ str_[i] \in {"0","1","2","3","4","5","6","7","8","9"} \/ (str_[i] \in {"-", "+"} /\ i < j)

\* C30: the Integer setting holds the decimal string of an integer in every
\* state; a read of its value after a call that returned gives an integer,
\* and build_parser raises nothing
C30_IntegerDecodes ==
    /\ Decimal(HeldString)
    /\ (Len(ops) = 2 /\ ops[2] = "getitem") => result.t \in {"int", "long"}
    /\ (Len(ops) = 2 /\ ops[2] = "build_parser") => outcome.raised = ""
====
